---- MODULE Spec2Model ----
(***************************************************************************)
(* Rockfall prediction: feature contract, model gateway, risk labeler and  *)
(* risk classifier.                                                        *)
(*                                                                         *)
(* Numbers are fixed-point with two decimals: the integer n stands for the *)
(* float n / 100 (25 mm of rain is 2500, the probability 0.33 is 33).      *)
(* Feature names are sequences of one-character strings, so that Python's  *)
(* substring test ('roll' in feature) and str.lower() are computed.        *)
(***************************************************************************)
EXTENDS Integers, Sequences, FiniteSets, TLC

VARIABLES
    probability,      \* classify_risk: the argument of the last call
    risk_class,       \* classify_risk: the value it returned
    df,               \* create_risk_labels: the engineered table handed in
    labelled,         \* create_risk_labels: the table it returned (None before)
    _model,           \* predict.py: the cached model, None until loaded
    _feature_names,   \* predict.py: the cached feature contract
    _model_metadata,  \* predict.py: the cached metadata
    disk,             \* the three files of the artifact directory
    request,          \* the payloads of the pending or last call
    ret,              \* the last call: [op, raised, value]; None before
    training,         \* train.py: [run, pc] of the training process
    env_df,           \* dataset.py: the frame of the environmental records
    sensor_df,        \* dataset.py: the frame of the sensor readings
    dataset,          \* train.py: X and y once prepared, None before
    pc,               \* load_model: the statement each request thread is at
    got,              \* load_model: what the last call of each thread gave
    loads,            \* load_model: how often _model has been assigned
    env_json,         \* features.py: the environmental file, None if absent
    sensor_csvs,      \* features.py: the sensor files there are, by name
    tabular_df        \* features.py: what build_tabular_features returned

classifyVars == <<probability, risk_class>>
labelVars == <<df, labelled>>
cacheVars == <<_model, _feature_names, _model_metadata>>
gatewayVars == <<_model, _feature_names, _model_metadata, disk, request, ret,
                 training>>
trainVars == <<env_df, sensor_df, dataset>>
threadVars == <<pc, got, loads>>
alignVars == <<env_json, sensor_csvs, tabular_df>>
vars == <<probability, risk_class, df, labelled,
          _model, _feature_names, _model_metadata, disk, request, ret,
          training, env_df, sensor_df, dataset, pc, got, loads,
          env_json, sensor_csvs, tabular_df>>

\* Python's None / an optional value
None == << >>
Some(v) == << v >>

----------------------------------------------------------------------------
(* Bounds of the explored inputs.                                          *)

\* probabilities handed to classify_risk range over PMin..PMax hundredths
PBelow == 20
PMin == 0 - PBelow
PMax == 120

\* tables handed to create_risk_labels have at most MaxLabelRows rows
MaxLabelRows == 2

\* feature contracts have at most MaxContract names
MaxContract == 2

\* batches handed to predict_batch have at most MaxBatch payloads
MaxBatch == 2

\* training runs that save their artifacts while the service is up
MaxRuns == 1

\* request threads of the service process that call load_model
MaxThreads == 2

\* the training frame is built from at most MaxRecords environmental
\* records and MaxRecords hours of sensor readings
MaxRecords == 3

----------------------------------------------------------------------------
(* backend/services/predict.py: risk classification                        *)

Levels == <<"LOW", "MEDIUM", "HIGH">>

\* RISK_THRESHOLDS[level] = (low, high), in hundredths
RISK_THRESHOLDS ==
    [ LOW    |-> <<0, 33>>,
      MEDIUM |-> <<33, 66>>,
      HIGH   |-> <<66, 100>> ]

\* the loop of classify_risk from the i-th dict entry on; "" when no band
\* matched and the loop ran to its end
\* mutant: the bands are closed at their upper end (low <= p <= high)
RECURSIVE BandLoop_Closed(_, _)
BandLoop_Closed(p, i) ==
    IF i > Len(Levels) THEN ""
    ELSE IF RISK_THRESHOLDS[Levels[i]][1] <= p /\ p <= RISK_THRESHOLDS[Levels[i]][2]
         THEN Levels[i]
         ELSE BandLoop_Closed(p, i + 1)

RECURSIVE BandLoop(_, _)
BandLoop(p, i) ==
    IF i > Len(Levels) THEN ""
    ELSE IF RISK_THRESHOLDS[Levels[i]][1] <= p /\ p < RISK_THRESHOLDS[Levels[i]][2]
         THEN Levels[i]
         ELSE BandLoop(p, i + 1)

\* mutant: the edge case after the loop is for exactly 1.0 alone
classify_risk_EdgeAtOne(p) ==
    IF BandLoop(p, 1) # "" THEN BandLoop(p, 1)
    ELSE IF p = RISK_THRESHOLDS["HIGH"][2] THEN "HIGH"
    ELSE "LOW"

\* mutant: the edge case after the loop is missing
classify_risk_NoEdge(p) ==
    IF BandLoop(p, 1) # "" THEN BandLoop(p, 1) ELSE "LOW"

classify_risk(p) ==
    IF BandLoop(p, 1) # "" THEN BandLoop(p, 1)
    ELSE IF p >= RISK_THRESHOLDS["HIGH"][1] THEN "HIGH"
    ELSE "LOW"

\* backend/services/alerts.py, AlertManager.should_send_alert:
\* probability >= thresholds.get(risk_level, 0.5)
should_send_alert(p, risk_level) ==
    LET thresholds == [HIGH |-> 70, MEDIUM |-> 50, LOW |-> 90] IN
    p >= (IF risk_level \in DOMAIN thresholds THEN thresholds[risk_level]
          ELSE 50)

----------------------------------------------------------------------------
(* The column names, feature names, suffixes and patterns the code spells  *)
(* out, each string as the sequence of its characters: the columns of      *)
(* ml/features.py and ml/dataset.py, the payload fields of the service,    *)
(* the suffixes engineer_features appends and the patterns of the default  *)
(* rule of prepare_features.                                               *)

Str ==
    [ rainfall_mm |-> <<"r","a","i","n","f","a","l","l","_","m","m">>,
      temperature_c |->
          <<"t","e","m","p","e","r","a","t","u","r","e","_","c">>,
      displacement |-> <<"d","i","s","p","l","a","c","e","m","e","n","t">>,
      strain |-> <<"s","t","r","a","i","n">>,
      pore_pressure |->
          <<"p","o","r","e","_","p","r","e","s","s","u","r","e">>,
      vibrations |-> <<"v","i","b","r","a","t","i","o","n","s">>,
      rainfall_cumsum_24h |->
          <<"r","a","i","n","f","a","l","l","_","c","u","m","s","u","m","_","2","4","h">>,
      risk |-> <<"r","i","s","k">>,
      risk_probability |->
          <<"r","i","s","k","_","p","r","o","b","a","b","i","l","i","t","y">>,
      humidity |-> <<"h","u","m","i","d","i","t","y">>,
      wind_speed |-> <<"w","i","n","d","_","s","p","e","e","d">>,
      pressure |-> <<"p","r","e","s","s","u","r","e">>,
      timestamp |-> <<"t","i","m","e","s","t","a","m","p">>,
      hour |-> <<"h","o","u","r">>,
      day_of_week |-> <<"d","a","y","_","o","f","_","w","e","e","k">>,
      month |-> <<"m","o","n","t","h">>,
      is_weekend |-> <<"i","s","_","w","e","e","k","e","n","d">>,
      is_night |-> <<"i","s","_","n","i","g","h","t">>,
      _roll3h |-> <<"_","r","o","l","l","3","h">>,
      _diff1 |-> <<"_","d","i","f","f","1">>,
      _pct_change |-> <<"_","p","c","t","_","c","h","a","n","g","e">>,
      roll |-> <<"r","o","l","l">>,
      diff |-> <<"d","i","f","f">>,
      pct_change |-> <<"p","c","t","_","c","h","a","n","g","e">>,
      temp |-> <<"t","e","m","p">>,
      Air_Temp |-> <<"A","i","r","_","T","e","m","p">>,
      ambient_vibration |->
          <<"a","m","b","i","e","n","t","_","v","i","b","r","a","t","i","o","n">>,
      _std |-> <<"_","s","t","d">>,
      _count |-> <<"_","c","o","u","n","t">>,
      _roll6h |-> <<"_","r","o","l","l","6","h">>,
      _roll12h |-> <<"_","r","o","l","l","1","2","h">>,
      _diff3 |-> <<"_","d","i","f","f","3">>,
      rain_temp_interaction |->
          <<"r","a","i","n","_","t","e","m","p","_","i","n","t","e","r","a","c","t","i","o","n">>,
      heavy_rain |-> <<"h","e","a","v","y","_","r","a","i","n">>,
      extreme_rain |-> <<"e","x","t","r","e","m","e","_","r","a","i","n">>,
      high_displacement |->
          <<"h","i","g","h","_","d","i","s","p","l","a","c","e","m","e","n","t">>,
      critical_displacement |->
          <<"c","r","i","t","i","c","a","l","_","d","i","s","p","l","a","c","e","m","e","n","t">>,
      rainfall_cumsum_72h |->
          <<"r","a","i","n","f","a","l","l","_","c","u","m","s","u","m","_","7","2","h">> ]

----------------------------------------------------------------------------
(* ml/features.py: create_risk_labels                                      *)
(* A table is [columns |-> set of names, rows |-> sequence of rows]; a row *)
(* maps each column name to a number in hundredths.                        *)

\* DataFrame.empty: some axis has length zero
Empty(t) == t.columns = {} \/ Len(t.rows) = 0

\* np.where(cond, a, 0.0) for one row
Where(cond, a) == IF cond THEN a ELSE 0

\* np.clip
Clip(x, lo, hi) == IF x < lo THEN lo ELSE IF x > hi THEN hi ELSE x

\* the contributions of one row, in the order the code adds them
\* mutant: the first rainfall threshold is not strict
rain_risk_NonStrict(t, r) ==
    IF Str.rainfall_mm \in t.columns
    THEN Where(r[Str.rainfall_mm] >= 2000, 30) + Where(r[Str.rainfall_mm] > 5000, 20)
    ELSE 0

rain_risk(t, r) ==
    IF Str.rainfall_mm \in t.columns
    THEN Where(r[Str.rainfall_mm] > 2000, 30) + Where(r[Str.rainfall_mm] > 5000, 20)
    ELSE 0

cum_rain_risk(t, r) ==
    IF Str.rainfall_cumsum_24h \in t.columns
    THEN Where(r[Str.rainfall_cumsum_24h] > 10000, 20)
    ELSE 0

vib_risk(t, r) ==
    IF Str.vibrations \in t.columns
    THEN Where(r[Str.vibrations] > 60, 25) + Where(r[Str.vibrations] > 100, 15)
    ELSE 0

disp_risk(t, r) ==
    IF Str.displacement \in t.columns
    THEN Where(r[Str.displacement] > 500, 30) + Where(r[Str.displacement] > 1000, 20)
    ELSE 0

strain_risk(t, r) ==
    IF Str.strain \in t.columns THEN Where(r[Str.strain] > 100, 15) ELSE 0

pressure_risk(t, r) ==
    IF Str.pore_pressure \in t.columns THEN Where(r[Str.pore_pressure] > 200, 10) ELSE 0

combined_risk(t, r) ==
    IF \A col \in {Str.rainfall_mm, Str.vibrations} : col \in t.columns
    THEN Where(r[Str.rainfall_mm] > 2000 /\ r[Str.vibrations] > 60, 20)
    ELSE 0

geo_risk(t, r) ==
    IF \A col \in {Str.displacement, Str.strain} : col \in t.columns
    THEN Where(r[Str.displacement] > 500 /\ r[Str.strain] > 100, 15)
    ELSE 0

temp_risk(t, r) ==
    IF Str.temperature_c \in t.columns
    THEN Where(r[Str.temperature_c] < 0, 5) + Where(r[Str.temperature_c] > 4000, 5)
    ELSE 0

\* risk_score of one row after np.clip(risk_score, 0, 1)
risk_score(t, r) ==
    Clip(rain_risk(t, r) + cum_rain_risk(t, r) + vib_risk(t, r)
           + disp_risk(t, r) + strain_risk(t, r) + pressure_risk(t, r)
           + combined_risk(t, r) + geo_risk(t, r) + temp_risk(t, r),
         0, 100)

\* The sum as numpy computes it.  A float64 is <<high, low>>: its value in
\* units of 2^-57 is high * 2^29 + low (0.05, the least literal of the
\* table, has an ulp of 2^-57, so every sum is a whole number of units).
\* Float64[a] is the float64 nearest to the literal a / 100.
Float64 ==
    [ a \in {0, 5, 10, 15, 20, 25, 30} |->
        CASE a = 0 -> <<0, 0>>
          [] a = 5 -> <<13421772, 429496730>>
          [] a = 10 -> <<26843545, 322122548>>
          [] a = 15 -> <<40265318, 214748364>>
          [] a = 20 -> <<53687091, 107374184>>
          [] a = 25 -> <<67108864, 0>>
          [] a = 30 -> <<80530636, 429496728>> ]

\* a + b in float64: the exact sum rounded to 53 significant bits, a tie to
\* the even neighbour
Add64(a, b) ==
    LET limb == 536870912                     \* 2^29
        hi == a[1] + b[1] + ((a[2] + b[2]) \div limb)
        lo == (a[2] + b[2]) % limb
        \* the ulp of the binade of the sum, in units: 2^53 units = 2^-4
        ulp == IF hi < 16777216 THEN 1         \* below 2^-4
               ELSE IF hi < 33554432 THEN 2
               ELSE IF hi < 67108864 THEN 4
               ELSE IF hi < 134217728 THEN 8
               ELSE IF hi < 268435456 THEN 16  \* [0.5, 1)
               ELSE IF hi < 536870912 THEN 32  \* [1, 2)
               ELSE 64
        rest == lo % ulp
        up == \/ 2 * rest > ulp
              \/ 2 * rest = ulp /\ (lo \div ulp) % 2 = 1
        rounded == lo - rest + (IF up THEN ulp ELSE 0)
    IN  IF rounded = limb THEN <<hi + 1, 0>> ELSE <<hi, rounded>>

\* the blocks of the sum for one row in the order of the code, each the two
\* np.where results it is made of (0 for a column that is missing and for
\* the second result of a block that has one)
Terms(t, r) ==
    LET Has(c) == c \in t.columns
        Above(c, k, a) == IF Has(c) THEN Where(r[c] > k, a) ELSE 0
    IN  << << Above(Str.rainfall_mm, 2000, 30), Above(Str.rainfall_mm, 5000, 20) >>,
           << Above(Str.rainfall_cumsum_24h, 10000, 20), 0 >>,
           << Above(Str.vibrations, 60, 25), Above(Str.vibrations, 100, 15) >>,
           << Above(Str.displacement, 500, 30), Above(Str.displacement, 1000, 20) >>,
           << Above(Str.strain, 100, 15), 0 >>,
           << Above(Str.pore_pressure, 200, 10), 0 >>,
           << IF Has(Str.rainfall_mm) /\ Has(Str.vibrations)
              THEN Where(r[Str.rainfall_mm] > 2000 /\ r[Str.vibrations] > 60, 20)
              ELSE 0, 0 >>,
           << IF Has(Str.displacement) /\ Has(Str.strain)
              THEN Where(r[Str.displacement] > 500 /\ r[Str.strain] > 100, 15)
              ELSE 0, 0 >>,
           << IF Has(Str.temperature_c)
              THEN Where(r[Str.temperature_c] < 0, 5) ELSE 0,
              Above(Str.temperature_c, 4000, 5) >> >>

\* a > b in float64
Greater64(a, b) == a[1] > b[1] \/ (a[1] = b[1] /\ a[2] > b[2])

\* risk_score of one row as float64 after np.clip(risk_score, 0, 1), the
\* blocks added in the given order (the code adds them in the order 1..9)
risk_score_float64(terms, order) ==
    LET RECURSIVE Sum(_, _)
        Sum(score, k) ==
            IF k > Len(order) THEN score
            ELSE Sum(Add64(score,
                           Add64(Float64[terms[order[k]][1]],
                                 Float64[terms[order[k]][2]])),
                     k + 1)
        one == <<268435456, 0>>
        total == Sum(Float64[0], 1)
    IN  IF Greater64(total, one) THEN one ELSE total

\* (risk_score > 0.5).astype(int)
\* mutant: a score of exactly 0.5 is labelled high risk
risk_label_AtLeast(score) == IF score >= 50 THEN 1 ELSE 0

risk_label(score) == IF score > 50 THEN 1 ELSE 0

create_risk_labels(t) ==
    IF Empty(t) THEN t
    ELSE [ columns |-> t.columns \cup {Str.risk, Str.risk_probability},
           rows |-> [ i \in 1..Len(t.rows) |->
               [ c \in t.columns \cup {Str.risk, Str.risk_probability} |->
                   IF c = Str.risk THEN risk_label(risk_score(t, t.rows[i]))
                   ELSE IF c = Str.risk_probability THEN risk_score(t, t.rows[i])
                   ELSE t.rows[i][c] ] ] ]

----------------------------------------------------------------------------
(* backend/services/predict.py: prepare_features                           *)
(* A payload is a function from its keys to cells; a cell is None (null)   *)
(* or Some(n), n in hundredths; the cell under 'timestamp' is None or      *)
(* Some of a datetime [hour, dayofweek, month].  A feature vector (a frame *)
(* of one row) is [names |-> sequence, values |-> sequence of cells].      *)

\* Python's  pat in s  for strings
Contains(s, pat) ==
    \E i \in 0..(Len(s) - Len(pat)) : SubSeq(s, i + 1, i + Len(pat)) = pat

UpperCase == <<"A","B","C","D","E","F","G","H","I","J","K","L","M","N","O","P","Q","R","S","T","U","V","W","X","Y","Z">>
LowerCase == <<"a","b","c","d","e","f","g","h","i","j","k","l","m","n","o","p","q","r","s","t","u","v","w","x","y","z">>

\* str.lower()
lower(s) ==
    [ i \in 1..Len(s) |->
        IF \E k \in 1..Len(UpperCase) : UpperCase[k] = s[i]
        THEN LowerCase[CHOOSE k \in 1..Len(UpperCase) : UpperCase[k] = s[i]]
        ELSE s[i] ]

\* a whole number as a cell value in hundredths
Num(n) == n * 100

\* mutant: the humidity default is missing
DefaultValue_NoHumidity(feature) ==
    IF Contains(feature, Str.roll) \/ Contains(feature, Str.diff)
         \/ Contains(feature, Str.pct_change)
    THEN 0
    ELSE IF Contains(lower(feature), Str.temp) THEN 2000
    ELSE IF Contains(lower(feature), Str.pressure) THEN 101325
    ELSE 0

\* mutant: the temperature default is tried before the derived-name default
DefaultValue_TemperatureFirst(feature) ==
    IF Contains(lower(feature), Str.temp) THEN 2000
    ELSE IF Contains(feature, Str.roll) \/ Contains(feature, Str.diff)
         \/ Contains(feature, Str.pct_change)
    THEN 0
    ELSE IF Contains(lower(feature), Str.pressure) THEN 101325
    ELSE IF Contains(lower(feature), Str.humidity) THEN 5000
    ELSE 0

\* the default of a contract feature that the frame lacks
DefaultValue(feature) ==
    IF Contains(feature, Str.roll) \/ Contains(feature, Str.diff)
         \/ Contains(feature, Str.pct_change)
    THEN 0
    ELSE IF Contains(lower(feature), Str.temp) THEN 2000
    ELSE IF Contains(lower(feature), Str.pressure) THEN 101325
    ELSE IF Contains(lower(feature), Str.humidity) THEN 5000
    ELSE 0

CalendarNames == {Str.hour, Str.day_of_week, Str.month, Str.is_weekend, Str.is_night}

\* 'timestamp' in payload and payload['timestamp']
HasTimestamp(payload) ==
    Str.timestamp \in DOMAIN payload /\ payload[Str.timestamp] # None

\* the calendar columns written from a timestamp
CalendarValue(ts, c) ==
    IF c = Str.hour THEN Num(ts.hour)
    ELSE IF c = Str.day_of_week THEN Num(ts.dayofweek)
    ELSE IF c = Str.month THEN Num(ts.month)
    ELSE IF c = Str.is_weekend THEN Num(IF ts.dayofweek >= 5 THEN 1 ELSE 0)
    ELSE Num(IF ts.hour >= 22 \/ ts.hour <= 6 THEN 1 ELSE 0)

\* the frame before the selection: the payload's columns, the calendar
\* columns, then a default for each contract name still missing
FrameColumns(payload) ==
    DOMAIN payload \cup (IF HasTimestamp(payload) THEN CalendarNames ELSE {})

FrameCell(payload, c) ==
    IF c \notin FrameColumns(payload) THEN Some(DefaultValue(c))
    ELSE IF HasTimestamp(payload) /\ c \in CalendarNames
    THEN Some(CalendarValue(payload[Str.timestamp][1], c))
    ELSE payload[c]

\* DataFrame.fillna(0) on one cell
Fillna(cell) == IF cell = None THEN Some(0) ELSE cell

\* mutant: the null cells are not filled
SelectFeatures_NoFill(payload, feature_names) ==
    [ names |-> feature_names,
      values |-> [ i \in 1..Len(feature_names) |->
                     FrameCell(payload, feature_names[i]) ] ]

\* df[feature_names].fillna(0)
SelectFeatures(payload, feature_names) ==
    [ names |-> feature_names,
      values |-> [ i \in 1..Len(feature_names) |->
                     Fillna(FrameCell(payload, feature_names[i])) ] ]

----------------------------------------------------------------------------
(* backend/services/predict.py: the model cache and the prediction calls   *)
(* The cache is [model, feature_names, metadata], each None or Some(..).   *)
(* A file of the artifact directory is [st |-> "absent" | "corrupt" |      *)
(* "ok", content |-> what loading it yields].  A model object is           *)
(* [run |-> the training run, fitted |-> the feature names it was fitted   *)
(* on].  Every operation returns [cache |-> the cache it leaves,           *)
(* raised |-> "none" or the exception class, value |-> the result].        *)

Cache == [ model |-> _model, feature_names |-> _feature_names,
           metadata |-> _model_metadata ]

\* a readable file, and the artifact directory with no file in it
FileOk(content) == [st |-> "ok", content |-> content]
NoModel == [run |-> 0, fitted |-> << >>]
NoDisk == [ model |-> [st |-> "absent", content |-> NoModel],
            features |-> [st |-> "absent", content |-> << >>],
            metadata |-> [st |-> "absent", content |-> 0] ]

Return(c, v) == [cache |-> c, raised |-> "none", value |-> v]
Raise(c, e) == [cache |-> c, raised |-> e, value |-> None]

\* load_model from its first statement to the joblib.load of the model
LoadModelFile(c, d) ==
    IF d.model.st # "ok"
    THEN Raise(c, "ModelNotFoundError")
    ELSE Return([c EXCEPT !.model = Some(d.model.content)], None)

\* ... the feature names: a missing file gives [], a corrupt one raises
LoadFeatureNames(c, d) ==
    IF d.features.st = "corrupt"
    THEN Raise(c, "ModelNotFoundError")
    ELSE Return([c EXCEPT !.feature_names =
                    IF d.features.st = "ok" THEN Some(d.features.content)
                    ELSE Some(<< >>)], None)

\* the metadata of a run is the run's number; {} is
EmptyMetadata == 0

\* ... the metadata: a missing file gives {}, a corrupt one raises
LoadMetadata(c, d) ==
    IF d.metadata.st = "corrupt"
    THEN Raise(c, "ModelNotFoundError")
    ELSE Return([c EXCEPT !.metadata =
                    IF d.metadata.st = "ok" THEN Some(d.metadata.content)
                    ELSE Some(EmptyMetadata)], None)

load_model(c, d) ==
    IF c.model # None
    THEN Return(c, <<c.model, c.feature_names, c.metadata>>)
    ELSE LET m == LoadModelFile(c, d) IN
         IF m.raised # "none" THEN m
         ELSE LET f == LoadFeatureNames(m.cache, d) IN
              IF f.raised # "none" THEN f
              ELSE LET j == LoadMetadata(f.cache, d) IN
                   IF j.raised # "none" THEN j
                   ELSE Return(j.cache, <<j.cache.model, j.cache.feature_names,
                                          j.cache.metadata>>)

prepare_features(c, d, payload) ==
    LET l == load_model(c, d) IN
    IF l.raised # "none" THEN Raise(l.cache, "PredictionError")
    ELSE IF l.cache.feature_names = None       \* iterating None: TypeError
    THEN Raise(l.cache, "PredictionError")
    ELSE Return(l.cache, SelectFeatures(payload, l.cache.feature_names[1]))

\* the classifier: a deterministic function of one row of numbers
RECURSIVE WeightedSum(_, _)
WeightedSum(values, i) ==
    IF i > Len(values) THEN 0
    ELSE i * values[i][1] + WeightedSum(values, i + 1)

Proba(m, values) == (m.run * 37 + WeightedSum(values, 1)) % 101

\* model.predict_proba(X)[:, 1]: None when the estimator raises (no row, or
\* a number of columns other than the one it was fitted on)
model_predict_proba(m, X) ==
    IF Len(X.rows) = 0 \/ Len(X.names) # Len(m.fitted) THEN None
    ELSE Some([ i \in 1..Len(X.rows) |-> Proba(m, X.rows[i]) ])

predict_proba(c, d, payload) ==
    LET l == load_model(c, d) IN
    IF l.raised # "none" THEN Raise(l.cache, "PredictionError")
    ELSE LET f == prepare_features(l.cache, d, payload) IN
         IF f.raised # "none" THEN Raise(f.cache, "PredictionError")
         ELSE LET pr == model_predict_proba(f.cache.model[1],
                            [names |-> f.value.names, rows |-> <<f.value.values>>])
              IN  IF pr = None THEN Raise(f.cache, "PredictionError")
                  ELSE Return(f.cache, Some(pr[1][1]))

\* mutant: the rows of the batch frame are in reverse order
BatchFrame_Reversed(all_features, feature_names) ==
    IF feature_names = None THEN None
    ELSE IF Len(all_features) = 0 /\ Len(feature_names[1]) > 0 THEN None
    ELSE Some([ names |-> feature_names[1],
                rows |-> [ i \in 1..Len(all_features) |->
                             [ k \in 1..Len(feature_names[1]) |->
                                 Fillna(all_features[Len(all_features) + 1 - i]
                                            .values[k]) ] ] ])

\* pd.DataFrame(all_features)[feature_names].fillna(0): None on KeyError
BatchFrame(all_features, feature_names) ==
    IF feature_names = None THEN None
    ELSE IF Len(all_features) = 0 /\ Len(feature_names[1]) > 0 THEN None
    ELSE Some([ names |-> feature_names[1],
                rows |-> [ i \in 1..Len(all_features) |->
                             [ k \in 1..Len(feature_names[1]) |->
                                 Fillna(all_features[i].values[k]) ] ] ])

predict_batch(c, d, payloads) ==
    LET l == load_model(c, d) IN
    IF l.raised # "none" THEN Raise(l.cache, "PredictionError")
    ELSE IF \E i \in 1..Len(payloads) :
                prepare_features(l.cache, d, payloads[i]).raised # "none"
    THEN Raise(l.cache, "PredictionError")
    ELSE LET all_features == [ i \in 1..Len(payloads) |->
                                 prepare_features(l.cache, d, payloads[i]).value ]
             batch_df == BatchFrame(all_features, l.cache.feature_names)
         IN  IF batch_df = None THEN Raise(l.cache, "PredictionError")
             ELSE LET pr == model_predict_proba(l.cache.model[1], batch_df[1])
                  IN  IF pr = None THEN Raise(l.cache, "PredictionError")
                      ELSE Return(l.cache, pr)

\* calculate_confidence: |p1 - p0| of the two class probabilities, and 0.5
\* when anything raises
calculate_confidence(c, d, features_df) ==
    LET l == load_model(c, d) IN
    IF l.raised # "none" THEN Return(l.cache, Some(50))
    ELSE LET pr == model_predict_proba(l.cache.model[1],
                       [names |-> features_df.names, rows |-> <<features_df.values>>])
         IN  IF pr = None THEN Return(l.cache, Some(50))
             ELSE LET p1 == pr[1][1]
                      d10 == p1 - (100 - p1)
                  IN  Return(l.cache, Some(IF d10 < 0 THEN 0 - d10 ELSE d10))

----------------------------------------------------------------------------
(* ml/features.py: engineer_features and build_tabular_features.  A frame  *)
(* is [columns |-> the column names in order, rows |-> the rows, each the  *)
(* sequence of its cells in column order]; a cell is None (NaN) or         *)
(* Some(n); the cell under 'timestamp' is Some(t), t in minutes since      *)
(* Monday 2024-01-01 00:00.  A quotient is cut to two decimals.            *)

EmptyFrame == [columns |-> << >>, rows |-> << >>]

\* DataFrame.empty
IsEmpty(f) == Len(f.columns) = 0 \/ Len(f.rows) = 0

\* c in f.columns
HasColumn(f, c) == \E j \in 1..Len(f.columns) : f.columns[j] = c

\* f[c] at row i
Cell(f, i, c) == f.rows[i][CHOOSE j \in 1..Len(f.columns) : f.columns[j] = c]

\* the same sequence with its elements evaluated once
AsTuple(s) == s \o << >>

\* the datetime of a timestamp: .dt.hour, .dt.dayofweek, .dt.month (and
\* the minute, which no column is made of)
Datetime(t) ==
    LET DaysInMonth == <<31, 29, 31, 30, 31, 30, 31, 31, 30, 31, 30, 31>>
        RECURSIVE MonthFrom(_, _)
        MonthFrom(day, m) ==
            IF m = 12 \/ day < DaysInMonth[m] THEN m
            ELSE MonthFrom(day - DaysInMonth[m], m + 1)
    IN  [ hour |-> (t \div 60) % 24,
          minute |-> t % 60,
          dayofweek |-> (t \div 1440) % 7,
          month |-> MonthFrom((t \div 1440) % 366, 1) ]

\* mutant: the tolerance itself is left out
Nearest_Exclusive(right, t, tolerance) ==
    LET time(j) == Cell(right, j, Str.timestamp)[1]
        back == { j \in 1..Len(right.rows) :
                    time(j) <= t /\ t - time(j) < tolerance }
        fwd == { j \in 1..Len(right.rows) :
                   time(j) >= t /\ time(j) - t < tolerance }
        b == CHOOSE j \in back : \A k \in back : k <= j
        f == CHOOSE j \in fwd : \A k \in fwd : j <= k
    IN  IF back = {} THEN (IF fwd = {} THEN 0 ELSE f)
        ELSE IF fwd = {} THEN b
        ELSE IF t - time(b) <= time(f) - t THEN b
        ELSE f

\* pd.merge_asof(direction='nearest', tolerance=...): the row of the right
\* frame merged into a left row of time t, 0 for none.  The last row at or
\* before t and the first row at or after t compete, each within the
\* tolerance; at equal distance the earlier one is taken.
Nearest(right, t, tolerance) ==
    LET time(j) == Cell(right, j, Str.timestamp)[1]
        back == { j \in 1..Len(right.rows) :
                    time(j) <= t /\ t - time(j) <= tolerance }
        fwd == { j \in 1..Len(right.rows) :
                   time(j) >= t /\ time(j) - t <= tolerance }
        b == CHOOSE j \in back : \A k \in back : k <= j
        f == CHOOSE j \in fwd : \A k \in fwd : j <= k
    IN  IF back = {} THEN (IF fwd = {} THEN 0 ELSE f)
        ELSE IF fwd = {} THEN b
        ELSE IF t - time(b) <= time(f) - t THEN b
        ELSE f

\* both frames are sorted by timestamp already (the loaders sort them), so
\* sort_values leaves them as they are
merge_asof(left, right, tolerance) ==
    LET others == SelectSeq(right.columns, LAMBDA c : c # Str.timestamp) IN
    [ columns |-> left.columns \o others,
      rows |-> AsTuple([ i \in 1..Len(left.rows) |->
          LET m == Nearest(right, Cell(left, i, Str.timestamp)[1], tolerance)
          IN  left.rows[i] \o
                [ k \in 1..Len(others) |->
                    IF m = 0 THEN None ELSE Cell(right, m, others[k]) ] ]) ]

\* the columns of the engineered frame in the order they are added, each
\* [name, kind, of, k]: how it is computed, of which column, with which
\* window, lag or threshold.  The frames here carry no vibrations or
\* pore_pressure column, so the columns made of those are never added.
EngineeredCols(f) ==
    LET Col(name, kind, of, k) ==
            [name |-> name, kind |-> kind, of |-> of, k |-> k]
        calendar ==
            IF HasColumn(f, Str.timestamp)
            THEN << Str.hour, Str.day_of_week, Str.month, Str.is_weekend,
                    Str.is_night >>
            ELSE << >>
        numeric_cols ==
            SelectSeq(f.columns, LAMBDA c : c # Str.timestamp) \o calendar
        Suffixed(c) ==
            << Col(c \o Str._roll3h, "mean", c, 3),
               Col(c \o Str._roll6h, "mean", c, 6),
               Col(c \o Str._roll12h, "mean", c, 12),
               Col(c \o Str._roll3h \o Str._std, "std", c, 3),
               Col(c \o Str._diff1, "diff", c, 1),
               Col(c \o Str._diff3, "diff", c, 3),
               Col(c \o Str._pct_change, "pct_change", c, 1) >>
        RECURSIVE Rolling(_)
        Rolling(cols) ==
            IF cols = << >> THEN << >>
            ELSE Suffixed(cols[1]) \o Rolling(Tail(cols))
    IN  [ j \in 1..Len(f.columns) |->
            Col(f.columns[j], "raw", f.columns[j], 0) ]
        \o [ j \in 1..Len(calendar) |->
               Col(calendar[j], "calendar", Str.timestamp, 0) ]
        \o Rolling(numeric_cols)
        \o (IF HasColumn(f, Str.rainfall_mm) /\ HasColumn(f, Str.temperature_c)
            THEN << Col(Str.rain_temp_interaction, "product",
                        Str.rainfall_mm, 0) >>
            ELSE << >>)
        \o (IF HasColumn(f, Str.rainfall_mm)
            THEN << Col(Str.heavy_rain, "above", Str.rainfall_mm, 2000),
                    Col(Str.extreme_rain, "above", Str.rainfall_mm, 5000) >>
            ELSE << >>)
        \o (IF HasColumn(f, Str.displacement)
            THEN << Col(Str.high_displacement, "above", Str.displacement, 500),
                    Col(Str.critical_displacement, "above",
                        Str.displacement, 1000) >>
            ELSE << >>)
        \o (IF HasColumn(f, Str.rainfall_mm)
            THEN << Col(Str.rainfall_cumsum_24h, "sum", Str.rainfall_mm, 24),
                    Col(Str.rainfall_cumsum_72h, "sum", Str.rainfall_mm, 72) >>
            ELSE << >>)

\* the cell of the engineered column e at row i
EngineeredCell(f, i, e) ==
    LET \* a numeric column at a row: a raw cell or a calendar value
        Base(r, c) ==
            IF c \in CalendarNames
            THEN Some(CalendarValue(Datetime(Cell(f, r, Str.timestamp)[1]), c))
            ELSE Cell(f, r, c)
        \* the valid cells of the window of w rows that ends at row r
        Window(r, w) ==
            LET lo == IF r - w + 1 < 1 THEN 1 ELSE r - w + 1 IN
            SelectSeq([ j \in 1..(r - lo + 1) |-> Base(lo + j - 1, e.of) ],
                      LAMBDA x : x # None)
        \* the column padded forward up to row r, as pct_change pads it
        Pad(r) == LET s == Window(r, r) IN
                  IF s = << >> THEN None ELSE s[Len(s)]
        \* a / b cut towards zero
        Quot(a, b) ==
            IF (a >= 0) = (b > 0) THEN a \div b
            ELSE 0 - ((IF a < 0 THEN 0 - a ELSE a)
                        \div (IF b < 0 THEN 0 - b ELSE b))
        RECURSIVE Sum(_)
        Sum(s) == IF s = << >> THEN 0 ELSE s[1][1] + Sum(Tail(s))
        RECURSIVE SumSquares(_, _)
        SumSquares(s, ref) ==
            IF s = << >> THEN 0
            ELSE (s[1][1] - ref) * (s[1][1] - ref) + SumSquares(Tail(s), ref)
        RECURSIVE Sqrt(_, _, _)
        Sqrt(n, lo, hi) ==
            IF hi - lo <= 1 THEN lo
            ELSE IF ((lo + hi) \div 2) * ((lo + hi) \div 2) <= n
            THEN Sqrt(n, (lo + hi) \div 2, hi)
            ELSE Sqrt(n, lo, (lo + hi) \div 2)
        s == Window(i, e.k)
        n == Len(s)
        d == Sum(s) - n * s[1][1]
    IN  IF e.kind = "raw" THEN Cell(f, i, e.name)
        ELSE IF e.kind = "calendar" THEN Base(i, e.name)
        \* rolling(window=k, min_periods=1).mean()
        ELSE IF e.kind = "mean"
        THEN (IF n = 0 THEN None ELSE Some(Quot(Sum(s), n)))
        \* rolling(window=3, min_periods=1).std().fillna(0): the sample
        \* deviation, NaN (then 0) under two valid cells
        ELSE IF e.kind = "std"
        THEN (IF n < 2 THEN Some(0)
              ELSE Some(Sqrt((n * SumSquares(s, s[1][1]) - d * d)
                               \div (n * (n - 1)), 0, 46341)))
        \* diff(k).fillna(0)
        ELSE IF e.kind = "diff"
        THEN (IF i - e.k < 1 THEN Some(0)
              ELSE IF Base(i, e.of) = None \/ Base(i - e.k, e.of) = None
              THEN Some(0)
              ELSE Some(Base(i, e.of)[1] - Base(i - e.k, e.of)[1]))
        \* pct_change().fillna(0).replace([inf, -inf], 0)
        ELSE IF e.kind = "pct_change"
        THEN (IF i = 1 THEN Some(0)
              ELSE IF Pad(i - 1) = None THEN Some(0)
              ELSE IF Pad(i - 1)[1] = 0 THEN Some(0)
              ELSE Some(Quot((Pad(i)[1] - Pad(i - 1)[1]) * 100,
                             Pad(i - 1)[1])))
        \* rainfall_mm * temperature_c
        ELSE IF e.kind = "product"
        THEN (IF Cell(f, i, Str.rainfall_mm) = None
                   \/ Cell(f, i, Str.temperature_c) = None
              THEN None
              ELSE Some(Quot(Cell(f, i, Str.rainfall_mm)[1]
                               * Cell(f, i, Str.temperature_c)[1], 100)))
        \* (column > k).astype(int): a NaN is not above anything
        ELSE IF e.kind = "above"
        THEN (IF Cell(f, i, e.of) = None THEN Some(0)
              ELSE Some(Num(IF Cell(f, i, e.of)[1] > e.k THEN 1 ELSE 0)))
        \* rolling(window=k, min_periods=1).sum()
        ELSE (IF n = 0 THEN None ELSE Some(Sum(s)))

engineer_features(f) ==
    IF IsEmpty(f) THEN f
    ELSE LET cols == EngineeredCols(f) IN
         [ columns |-> AsTuple([ k \in 1..Len(cols) |-> cols[k].name ]),
           rows |-> AsTuple([ i \in 1..Len(f.rows) |->
                        AsTuple([ k \in 1..Len(cols) |->
                                    EngineeredCell(f, i, cols[k]) ]) ]) ]

\* dropna(thresh=int(0.6 * len(df.columns))): the labels of the rows that
\* have that many cells that are not NaN
Kept(f) ==
    SelectSeq([ i \in 1..Len(f.rows) |-> i ],
              LAMBDA i : Cardinality({ k \in 1..Len(f.columns) :
                                         f.rows[i][k] # None })
                           >= (6 * Len(f.columns)) \div 10)

\* mutant: the backward fill runs before the forward fill
Filled_BackwardFirst(f, kept, i, k) ==
    LET before == { j \in 1..i : f.rows[kept[j]][k] # None }
        after == { j \in i..Len(kept) : f.rows[kept[j]][k] # None }
    IN  IF after # {}
        THEN f.rows[kept[CHOOSE j \in after : \A l \in after : j <= l]][k]
        ELSE IF before # {}
        THEN f.rows[kept[CHOOSE j \in before : \A l \in before : l <= j]][k]
        ELSE Some(0)

\* fillna(method='ffill').fillna(method='bfill').fillna(0) on column k of
\* the rows kept
Filled(f, kept, i, k) ==
    LET before == { j \in 1..i : f.rows[kept[j]][k] # None }
        after == { j \in i..Len(kept) : f.rows[kept[j]][k] # None }
    IN  IF before # {}
        THEN f.rows[kept[CHOOSE j \in before : \A l \in before : l <= j]][k]
        ELSE IF after # {}
        THEN f.rows[kept[CHOOSE j \in after : \A l \in after : j <= l]][k]
        ELSE Some(0)

\* the rows of the two frames side by side, before any feature is made
Merged(env, sensor) ==
    IF IsEmpty(env) THEN sensor
    ELSE IF IsEmpty(sensor) THEN env
    ELSE merge_asof(env, sensor, 30)

\* the frame returned carries its index: the labels of the merged rows
\* that dropna kept (counted from 1)
build_tabular_features(env, sensor) ==
    IF IsEmpty(env) /\ IsEmpty(sensor)
    THEN [columns |-> << >>, rows |-> << >>, index |-> << >>]
    ELSE LET e == engineer_features(Merged(env, sensor))
             kept == Kept(e)
         IN  [ columns |-> e.columns,
               rows |-> AsTuple([ i \in 1..Len(kept) |->
                            AsTuple([ k \in 1..Len(e.columns) |->
                                        Filled(e, kept, i, k) ]) ]),
               index |-> kept ]

----------------------------------------------------------------------------
(* ml/features.py: load_env_features and load_sensor_csvs.  The            *)
(* environmental file is None when it is absent, else Some(the records in  *)
(* file order), a record a function from the keys it has to cells: the    *)
(* cell under timestamp None or Some(t), None a null or a text that is no  *)
(* date; the cell of a number None or Some(n), None a null or a text that  *)
(* is no number (pd.to_numeric(errors='coerce') makes a NaN of both).  The *)
(* sensor directory is a function from the names of the files that exist   *)
(* to the readings of each, a reading [timestamp |-> t, value |-> None or  *)
(* Some(n)].                                                               *)

EnvColumns ==
    << Str.timestamp, Str.rainfall_mm, Str.temperature_c,
       Str.ambient_vibration, Str.humidity, Str.wind_speed, Str.pressure >>

\* sort_values('timestamp') on rows whose first cell is the time: rows of
\* one time keep the order they came in (the insertion sort numpy uses on a
\* short array)
sort_values(rows) ==
    LET RECURSIVE Insert(_, _)
        Insert(sorted, r) ==
            IF sorted = << >> THEN <<r>>
            ELSE IF sorted[Len(sorted)][1][1] <= r[1][1]
            THEN Append(sorted, r)
            ELSE Append(Insert(SubSeq(sorted, 1, Len(sorted) - 1), r),
                        sorted[Len(sorted)])
        RECURSIVE Sort(_, _)
        Sort(done, rest) ==
            IF rest = << >> THEN done
            ELSE Sort(Insert(done, rest[1]), Tail(rest))
    IN  Sort(<< >>, rows)

\* dict.get(key, default)
Get(rec, key, default) == IF key \in DOMAIN rec THEN rec[key] ELSE default

\* a missing file or no record gives an empty frame; a record with no
\* timestamp is dropped; a key that is missing gives way to its other
\* spelling and then to its default (0.0, 20.0, 0.0, 50.0, 0.0, 1013.25);
\* a number that is null or unparsable becomes 0.0
load_env_features(file) ==
    LET Record(rec) ==
            << Get(rec, "timestamp", None),
               Fillna(Get(rec, "rainfall_mm", Get(rec, "rainfall", Some(0)))),
               Fillna(Get(rec, "temperature_c",
                          Get(rec, "temperature", Some(2000)))),
               Fillna(Get(rec, "vibrations",
                          Get(rec, "ambient_vibration", Some(0)))),
               Fillna(Get(rec, "humidity", Some(5000))),
               Fillna(Get(rec, "wind_speed", Some(0))),
               Fillna(Get(rec, "pressure", Some(101325))) >>
    IN  IF file = None THEN EmptyFrame
        ELSE IF file[1] = << >> THEN EmptyFrame
        ELSE [ columns |-> EnvColumns,
               rows |-> sort_values(
                   SelectSeq([ i \in 1..Len(file[1]) |-> Record(file[1][i]) ],
                             LAMBDA r : r[1] # None)) ]

\* groupby(pd.Grouper(key='timestamp', freq='1H'))['value']
\* .agg(['mean', 'std', 'count']) of the readings of one file that have a
\* value: one row an hour from the hour of the first reading to the hour of
\* the last, the mean NaN and the count 0 in an hour with no reading, the
\* deviation 0.0 where it is NaN (under two readings)
Hourly(name, readings) ==
    LET Hour(r) == (r.timestamp \div 60) * 60
        first == CHOOSE h \in { Hour(r) : r \in readings } :
                     \A r \in readings : h <= Hour(r)
        last == CHOOSE h \in { Hour(r) : r \in readings } :
                    \A r \in readings : Hour(r) <= h
        RECURSIVE Sum(_)
        Sum(S) == IF S = {} THEN 0
                  ELSE LET r == CHOOSE r \in S : TRUE
                       IN  r.value[1] + Sum(S \ {r})
        RECURSIVE SumSquares(_)
        SumSquares(S) ==
            IF S = {} THEN 0
            ELSE LET r == CHOOSE r \in S : TRUE
                 IN  r.value[1] * r.value[1] + SumSquares(S \ {r})
        RECURSIVE Sqrt(_, _, _)
        Sqrt(n, lo, hi) ==
            IF hi - lo <= 1 THEN lo
            ELSE IF ((lo + hi) \div 2) * ((lo + hi) \div 2) <= n
            THEN Sqrt(n, (lo + hi) \div 2, hi)
            ELSE Sqrt(n, lo, (lo + hi) \div 2)
        Row(h, S, n) ==
            << Some(h),
               IF n = 0 THEN None ELSE Some(Sum(S) \div n),
               IF n < 2 THEN Some(0)
               ELSE Some(Sqrt((n * SumSquares(S) - Sum(S) * Sum(S))
                                \div (n * (n - 1)), 0, 46341)),
               Some(Num(n)) >>
    IN  [ columns |-> << Str.timestamp, name, name \o Str._std,
                         name \o Str._count >>,
          rows |-> AsTuple([ j \in 1..((last - first) \div 60 + 1) |->
                       Row(first + 60 * (j - 1),
                           { r \in readings : Hour(r) = first + 60 * (j - 1) },
                           Cardinality({ r \in readings :
                                           Hour(r) = first + 60 * (j - 1) })) ]) ]

\* the lines of a file that are left once dropna(subset=['value']) has run
Readings(dir, name) == { r \in dir[name] : r.value # None }

sensor_types ==
    << Str.displacement, Str.strain, Str.pore_pressure, Str.vibrations >>

\* the hourly frame of each file that exists and has a reading with a
\* value, in the order of sensor_types, the later ones merged into the
\* first one by one with a tolerance of 2 hours; no frame at all gives an
\* empty frame
load_sensor_csvs(dir) ==
    LET present == SelectSeq(sensor_types,
                             LAMBDA name : /\ name \in DOMAIN dir
                                           /\ Readings(dir, name) # {})
        frames == AsTuple([ k \in 1..Len(present) |->
                              Hourly(present[k], Readings(dir, present[k])) ])
        RECURSIVE MergeFrom(_, _)
        MergeFrom(result, k) ==
            IF k > Len(frames) THEN result
            ELSE MergeFrom(merge_asof(result, frames[k], 120), k + 1)
    IN  IF present = << >> THEN EmptyFrame ELSE MergeFrom(frames[1], 2)

----------------------------------------------------------------------------
(* ml/dataset.py load and ml/train.py prepare_features_and_target          *)

\* the frame with the columns create_risk_labels adds, which reads it as a
\* table of named columns
WithRiskLabels(f) ==
    LET names == { f.columns[j] : j \in 1..Len(f.columns) }
        t == create_risk_labels(
               [ columns |-> names,
                 rows |-> [ i \in 1..Len(f.rows) |->
                              [ c \in names |-> Cell(f, i, c)[1] ] ] ])
    IN  [ columns |-> f.columns \o <<Str.risk, Str.risk_probability>>,
          rows |-> AsTuple([ i \in 1..Len(f.rows) |->
                       f.rows[i]
                         \o << Some(Num(t.rows[i][Str.risk])),
                               Some(t.rows[i][Str.risk_probability]) >> ]),
          index |-> f.index ]

\* the keys of the dictionary validate_features returns: the one of an empty
\* frame has a status and a message and nothing else
validate_features(f) ==
    IF IsEmpty(f) THEN {"status", "message"}
    ELSE {"status", "n_samples", "n_features", "missing_percentage",
          "numeric_features", "datetime_features", "feature_names",
          "warnings"}

\* RockfallDataset.load from the frame of build_tabular_features on: the
\* frame is labelled unless it is empty, validated, and returned once
\* validation_results['warnings'] has been read
Loaded(f) ==
    [ raised |-> IF "warnings" \in validate_features(f) THEN "none"
                 ELSE "KeyError",
      df |-> f ]

Labelled(f) == IF IsEmpty(f) THEN f ELSE WithRiskLabels(f)

\* RockfallDataset.load: [raised, df]
load(env, sensor) == Loaded(Labelled(build_tabular_features(env, sensor)))

\* the feature columns that are left once the constant ones are dropped
\* (X[col].nunique() <= 1)
Varying(f) ==
    LET exclude_cols == {Str.risk, Str.risk_probability, Str.timestamp}
        IsConstant(c) ==
            \A i, j \in 1..Len(f.rows) : Cell(f, i, c) = Cell(f, j, c)
    IN  SelectSeq(f.columns,
                  LAMBDA c : c \notin exclude_cols /\ ~IsConstant(c))

\* abs(corr) > 0.95 for two columns that are not constant, each given as
\* whole numbers: cov^2 > 0.9025 var(a) var(b), that is
\* 400 cov^2 > 361 var(a) var(b).  The two sides are written in digits of
\* base 2^15, the least significant first, so that no product leaves the
\* 32 bits of a model value.
HighlyCorrelated(a, b) ==
    LET RECURSIVE Dot(_, _)
        Dot(x, y) ==
            IF x = << >> THEN 0 ELSE x[1] * y[1] + Dot(Tail(x), Tail(y))
        RECURSIVE Total(_)
        Total(x) == IF x = << >> THEN 0 ELSE x[1] + Total(Tail(x))
        \* n times the sum of products less the product of the sums
        Covariance(x, y) == Len(x) * Dot(x, y) - Total(x) * Total(y)
        Digit == 32768
        \* a product of two naturals below 2^30 as four digits
        Product(x, y) ==
            LET p0 == (x % Digit) * (y % Digit)
                p1 == (x % Digit) * (y \div Digit)
                        + (x \div Digit) * (y % Digit) + p0 \div Digit
                p2 == (x \div Digit) * (y \div Digit) + p1 \div Digit
            IN  << p0 % Digit, p1 % Digit, p2 % Digit, p2 \div Digit >>
        \* four digits times a small number, as five digits
        Times(x, k) ==
            LET c1 == x[1] * k
                c2 == x[2] * k + c1 \div Digit
                c3 == x[3] * k + c2 \div Digit
                c4 == x[4] * k + c3 \div Digit
            IN  << c1 % Digit, c2 % Digit, c3 % Digit, c4 % Digit,
                   c4 \div Digit >>
        RECURSIVE GreaterFrom(_, _, _)
        GreaterFrom(x, y, i) ==
            IF i = 0 THEN FALSE
            ELSE IF x[i] # y[i] THEN x[i] > y[i]
            ELSE GreaterFrom(x, y, i - 1)
        cov == IF Covariance(a, b) < 0 THEN 0 - Covariance(a, b)
               ELSE Covariance(a, b)
    IN  GreaterFrom(Times(Product(cov, cov), 400),
                    Times(Product(Covariance(a, a), Covariance(b, b)), 361),
                    5)

\* the varying columns correlated above 0.95 with a column further left
\* (the upper triangle of the correlation matrix).  A column is compared
\* as its differences from its first cell, in the unit of their greatest
\* common divisor: the correlation is the same and the sums stay in range.
high_corr_features(f) ==
    LET RECURSIVE GCD(_, _)
        GCD(a, b) == IF b = 0 THEN a ELSE GCD(b, a % b)
        RECURSIVE GCDOf(_)
        GCDOf(s) ==
            IF s = << >> THEN 0
            ELSE GCD(IF s[1] < 0 THEN 0 - s[1] ELSE s[1], GCDOf(Tail(s)))
        Centred(c) ==
            LET d == AsTuple([ i \in 1..Len(f.rows) |->
                                 Cell(f, i, c)[1] - Cell(f, 1, c)[1] ])
                g == GCDOf(d)
            IN  AsTuple([ i \in 1..Len(d) |->
                            IF g = 0 THEN 0 ELSE d[i] \div g ])
        v == Varying(f)
        vec == AsTuple([ j \in 1..Len(v) |-> Centred(v[j]) ])
    IN  { v[j] : j \in { j \in 1..Len(v) :
            \E i \in 1..(j - 1) : HighlyCorrelated(vec[i], vec[j]) } }

\* X and y of a labelled frame; a frame with no 'risk' column raises
prepare_features_and_target(f) ==
    IF ~HasColumn(f, Str.risk)
    THEN [raised |-> "KeyError", columns |-> << >>, rows |-> << >>,
          index |-> << >>, y |-> << >>]
    ELSE LET dropped == high_corr_features(f)
             names == SelectSeq(Varying(f), LAMBDA c : c \notin dropped)
         IN  [ raised |-> "none",
               columns |-> names,
               rows |-> AsTuple([ i \in 1..Len(f.rows) |->
                            AsTuple([ k \in 1..Len(names) |->
                                        Fillna(Cell(f, i, names[k])) ]) ]),
               index |-> f.index,
               y |-> AsTuple([ i \in 1..Len(f.rows) |->
                                 Cell(f, i, Str.risk)[1] ]) ]

\* what training has of the real data: X and y of the frame load returned,
\* or the error load raised (load_and_prepare_data catches it and goes on
\* with synthetic data, which is no part of this model)
Prepared(l) ==
    IF l.raised # "none"
    THEN [raised |-> l.raised, columns |-> << >>, rows |-> << >>,
          index |-> << >>, y |-> << >>]
    ELSE prepare_features_and_target(l.df)

\* save_model_artifacts: the three files of a training run on X
Artifacts(columns) ==
    [ model |-> FileOk([run |-> 1, fitted |-> columns]),
      features |-> FileOk(columns),
      metadata |-> FileOk(1) ]

\* the raw record of row i of the training frame as an inference payload:
\* the merged columns, a NaN as null
RawRecord(env, sensor, i) ==
    LET merged == Merged(env, sensor) IN
    [ c \in { merged.columns[j] : j \in 1..Len(merged.columns) } |->
        IF c = Str.timestamp
        THEN Some(Datetime(Cell(merged, i, Str.timestamp)[1]))
        ELSE Cell(merged, i, c) ]

----------------------------------------------------------------------------
(* The idle value of each group of variables, for the specifications that  *)
(* do not exercise the group.                                              *)

ClassifyIdle == probability = 0 /\ risk_class = "unset"
LabelIdle == df = [columns |-> {}, rows |-> << >>] /\ labelled = None
GatewayIdle ==
    /\ _model = None /\ _feature_names = None /\ _model_metadata = None
    /\ disk = NoDisk
    /\ request = << >>
    /\ ret = None
    /\ training = [run |-> 1, pc |-> "idle"]
TrainIdle == env_df = EmptyFrame /\ sensor_df = EmptyFrame /\ dataset = None
ThreadsIdle == pc = << >> /\ got = << >> /\ loads = 0
AlignIdle == env_json = None /\ sensor_csvs = << >> /\ tabular_df = None

----------------------------------------------------------------------------
(* Specification SpecClassify: classify_risk applied to any probability.   *)

ClassifyInit ==
    /\ probability \in PMin..PMax
    /\ risk_class = "unset"
    /\ LabelIdle
    /\ GatewayIdle
    /\ TrainIdle
    /\ ThreadsIdle
    /\ AlignIdle

ClassifyRisk ==
    \E p \in PMin..PMax :
        /\ probability' = p
        /\ risk_class' = classify_risk(p)
        /\ UNCHANGED <<labelVars, gatewayVars, trainVars,
                   threadVars, alignVars>>

ClassifyNext == ClassifyRisk

SpecClassify == ClassifyInit /\ [][ClassifyNext]_vars

----------------------------------------------------------------------------
(* Specification SpecLabel: create_risk_labels applied to engineered       *)
(* tables.  The tables are those build_tabular_features can hand over: no  *)
(* null cell, any subset of the scored columns (a stream may be missing),  *)
(* rainfall_cumsum_24h present exactly when rainfall_mm is.  Values sit at *)
(* and just past every threshold of the scoring table.                     *)

LabelColumns == {Str.rainfall_mm, Str.rainfall_cumsum_24h, Str.vibrations, Str.displacement,
                 Str.strain, Str.pore_pressure, Str.temperature_c}

LabelColumnSets ==
    { cols \in SUBSET LabelColumns :
        /\ cols # {}
        /\ (Str.rainfall_cumsum_24h \in cols) <=> (Str.rainfall_mm \in cols) }

LabelRow(ra, cu, vi, di, st, po, te) ==
    [ c \in LabelColumns |->
        IF c = Str.rainfall_mm THEN ra
        ELSE IF c = Str.rainfall_cumsum_24h THEN cu
        ELSE IF c = Str.vibrations THEN vi
        ELSE IF c = Str.displacement THEN di
        ELSE IF c = Str.strain THEN st
        ELSE IF c = Str.pore_pressure THEN po
        ELSE te ]

\* the two scenarios of the scoring rule: rainfall 25 alone, and rainfall 55
\* with vibration 0.7
ScenarioRows == { LabelRow(Some(2500), Some(2500), Some(0), Some(0),
                           Some(0), Some(0), Some(2000)),
                  LabelRow(Some(5500), Some(5500), Some(70), Some(0),
                           Some(0), Some(0), Some(2000)) }

\* the rows that follow the first one in a table of several rows
SampleRows == { LabelRow(0, 0, 0, 0, 0, 0, 2000),
                LabelRow(6000, 12000, 120, 1200, 120, 220, 4500) }

Restrict(r, cols) == [c \in cols |-> r[c]]

\* the first rows: every combination of present columns and values
FirstRows ==
    LET \* a column that is missing from the table, or its value
        Opt(values) == {None} \cup {Some(v) : v \in values}
    IN  ScenarioRows \cup
        { LabelRow(ra, cu, vi, di, st, po, te) :
            ra \in Opt({2000, 2500, 5000, 5500}),
            cu \in Opt({10000, 10100}),
            vi \in Opt({60, 70, 100, 110}),
            di \in Opt({500, 600, 1000, 1100}),
            st \in Opt({100, 110}),
            po \in Opt({200, 210}),
            te \in Opt({-100, 0, 4000, 4100}) }

LabelInit ==
    /\ ClassifyIdle
    /\ GatewayIdle
    /\ TrainIdle
    /\ ThreadsIdle
    /\ AlignIdle
    /\ labelled = None
    /\ \E first \in FirstRows, n \in 0..MaxLabelRows :
         LET cols == {c \in LabelColumns : first[c] # None} IN
         /\ cols \in LabelColumnSets
         /\ \/ /\ n = 0
               /\ first \in ScenarioRows
               /\ df = [columns |-> cols, rows |-> << >>]
            \/ /\ n > 0
               /\ \E tail \in [1..(n - 1) -> SampleRows] :
                    df = [ columns |-> cols,
                           rows |-> [ i \in 1..n |->
                               IF i = 1 THEN [c \in cols |-> first[c][1]]
                               ELSE Restrict(tail[i - 1], cols) ] ]

CreateRiskLabels ==
    /\ labelled = None
    /\ labelled' = Some(create_risk_labels(df))
    /\ UNCHANGED <<df, classifyVars, gatewayVars, trainVars,
                   threadVars, alignVars>>

LabelNext == CreateRiskLabels

SpecLabel == LabelInit /\ [][LabelNext]_vars

----------------------------------------------------------------------------
(* Specification SpecPredict: prepare_features, predict_proba and          *)
(* predict_batch applied to any payload under any loaded feature contract. *)


\* the names a contract is made of: raw columns, engineered columns,
\* calendar columns, and a name in mixed case
FeatureUniverse ==
    { Str.rainfall_mm, Str.temperature_c, Str.pressure, Str.humidity, Str.pore_pressure,
      Str.temperature_c \o Str._roll3h, Str.rainfall_mm \o Str._diff1,
      Str.rainfall_mm \o Str._pct_change, Str.hour, Str.is_night,
      Str.Air_Temp }

\* a contract lists each name once (the columns of the training frame)
Contracts ==
    UNION { { c \in [1..n -> FeatureUniverse] :
                \A i, j \in 1..n : c[i] = c[j] => i = j } :
            n \in 0..MaxContract }

\* pd.to_datetime of the payload's timestamp: Saturday 2024-07-06 23:00,
\* Wednesday 2024-12-04 07:00 and Saturday 2024-01-06 06:30
Night == [hour |-> 23, minute |-> 0, dayofweek |-> 5, month |-> 7]
Morning == [hour |-> 7, minute |-> 0, dayofweek |-> 2, month |-> 12]
Dawn == [hour |-> 6, minute |-> 30, dayofweek |-> 5, month |-> 1]

PayloadKeys == {Str.rainfall_mm, Str.temperature_c, Str.wind_speed, Str.timestamp}

FullPayload(ra, te, ws, ts) ==
    [ k \in PayloadKeys |->
        IF k = Str.rainfall_mm THEN ra
        ELSE IF k = Str.temperature_c THEN te
        ELSE IF k = Str.wind_speed THEN ws
        ELSE ts ]

\* every payload: each key missing, null or set
Payloads ==
    { Restrict(FullPayload(ra, te, ws, ts), keys) :
        ra \in {None, Some(2500)}, te \in {None, Some(3000)},
        ws \in {Some(500)},
        ts \in {None, Some(Night), Some(Morning), Some(Dawn)},
        keys \in SUBSET PayloadKeys }

\* the payloads batches are made of
EmptyPayload == Restrict(FullPayload(None, None, None, None), {})
BatchPayloads ==
    { EmptyPayload,
      Restrict(FullPayload(Some(2500), Some(3000), None, None),
               {Str.rainfall_mm, Str.temperature_c}),
      Restrict(FullPayload(None, None, Some(500), Some(Night)),
               {Str.rainfall_mm, Str.wind_speed, Str.timestamp}) }

Batches == UNION { [1..n -> BatchPayloads] : n \in 0..MaxBatch }

PredictInit ==
    /\ ClassifyIdle
    /\ LabelIdle
    /\ TrainIdle
    /\ ThreadsIdle
    /\ AlignIdle
    /\ ret = None
    /\ training = [run |-> 1, pc |-> "idle"]
    /\ \E c \in Contracts :
         LET m == [run |-> 1, fitted |-> IF c = << >> THEN <<Str.rainfall_mm>> ELSE c]
         IN  /\ _model = Some(m)
             /\ _feature_names = Some(c)
             /\ _model_metadata = Some(1)
             /\ disk = [ model |-> FileOk(m),
                         features |-> IF c = << >>
                                      THEN [st |-> "absent", content |-> << >>]
                                      ELSE FileOk(c),
                         metadata |-> FileOk(1) ]
    /\ \/ \E payload \in Payloads :
            request = [kind |-> "single", payloads |-> <<payload>>]
       \/ \E payloads \in Batches :
            request = [kind |-> "batch", payloads |-> payloads]

\* the effect of a call that returned r
Called(op, r) ==
    /\ _model' = r.cache.model
    /\ _feature_names' = r.cache.feature_names
    /\ _model_metadata' = r.cache.metadata
    /\ ret' = Some([op |-> op, raised |-> r.raised, value |-> r.value])

PrepareFeatures ==
    /\ ret = None
    /\ request.kind = "single"
    /\ Called("prepare_features",
              prepare_features(Cache, disk, request.payloads[1]))
    /\ UNCHANGED <<disk, request, training, classifyVars, labelVars, trainVars,
                   threadVars, alignVars>>

PredictProba ==
    /\ ret = None
    /\ request.kind = "single"
    /\ Called("predict_proba", predict_proba(Cache, disk, request.payloads[1]))
    /\ UNCHANGED <<disk, request, training, classifyVars, labelVars, trainVars,
                   threadVars, alignVars>>

PredictBatch ==
    /\ ret = None
    /\ request.kind = "batch"
    /\ Called("predict_batch", predict_batch(Cache, disk, request.payloads))
    /\ UNCHANGED <<disk, request, training, classifyVars, labelVars, trainVars,
                   threadVars, alignVars>>

PredictNext == PrepareFeatures \/ PredictProba \/ PredictBatch

SpecPredict == PredictInit /\ [][PredictNext]_vars

----------------------------------------------------------------------------
(* Specification Spec: the life of the service process.  The module is     *)
(* imported (initialize_model tries a first load and swallows its          *)
(* failure), requests call load_model, predict_proba, predict_batch and    *)
(* calculate_confidence, and a training process saves new artifacts file   *)
(* by file (ml/train.py save_model_artifacts).                             *)

\* what training run r fits its model on
RunContract(r) ==
    IF r % 2 = 1 THEN <<Str.rainfall_mm, Str.temperature_c>>
    ELSE <<Str.rainfall_mm, Str.hour, Str.temperature_c \o Str._roll3h>>

RunModel(r) == [run |-> r, fitted |-> RunContract(r)]

\* a file as the service may find it at start-up
FileStates(content, nothing) ==
    { [st |-> "absent", content |-> nothing],
      [st |-> "corrupt", content |-> nothing],
      FileOk(content) }

EmptyCache == [model |-> None, feature_names |-> None, metadata |-> None]

\* initialize_model: load_model, any exception swallowed
initialize_model(c, d) == load_model(c, d).cache

Init ==
    /\ ClassifyIdle
    /\ LabelIdle
    /\ TrainIdle
    /\ ThreadsIdle
    /\ AlignIdle
    /\ disk \in [ model : FileStates(RunModel(1), NoModel),
                  features : FileStates(RunContract(1), << >>),
                  metadata : FileStates(1, 0) ]
    /\ _model = initialize_model(EmptyCache, disk).model
    /\ _feature_names = initialize_model(EmptyCache, disk).feature_names
    /\ _model_metadata = initialize_model(EmptyCache, disk).metadata
    /\ request = << >>
    /\ ret = None
    /\ training = [run |-> 1, pc |-> "idle"]

LoadModel ==
    /\ Called("load_model", load_model(Cache, disk))
    /\ request' = << >>
    /\ UNCHANGED <<disk, training, classifyVars, labelVars, trainVars,
                   threadVars, alignVars>>

ServePredict ==
    \E payload \in BatchPayloads :
        /\ Called("predict_proba", predict_proba(Cache, disk, payload))
        /\ request' = [kind |-> "single", payloads |-> <<payload>>]
        /\ UNCHANGED <<disk, training, classifyVars, labelVars, trainVars,
                   threadVars, alignVars>>

ServePredictBatch ==
    \E payloads \in Batches :
        /\ Called("predict_batch", predict_batch(Cache, disk, payloads))
        /\ request' = [kind |-> "batch", payloads |-> payloads]
        /\ UNCHANGED <<disk, training, classifyVars, labelVars, trainVars,
                   threadVars, alignVars>>

\* calculate_confidence on the vector of the health-check payload's shape
Confidence ==
    /\ Called("calculate_confidence",
              calculate_confidence(Cache, disk,
                  [names |-> RunContract(1), values |-> <<Some(1000), Some(2500)>>]))
    /\ request' = << >>
    /\ UNCHANGED <<disk, training, classifyVars, labelVars, trainVars,
                   threadVars, alignVars>>

\* ml/train.py main: a training run reaches save_model_artifacts
StartTraining ==
    /\ training.pc = "idle"
    /\ training.run <= MaxRuns
    /\ training' = [run |-> training.run + 1, pc |-> "dump_model"]
    /\ UNCHANGED <<cacheVars, disk, request, ret, classifyVars, labelVars, trainVars,
                   threadVars, alignVars>>

DumpModel ==
    /\ training.pc = "dump_model"
    /\ disk' = [disk EXCEPT !.model = FileOk(RunModel(training.run))]
    /\ training' = [training EXCEPT !.pc = "dump_features"]
    /\ UNCHANGED <<cacheVars, request, ret, classifyVars, labelVars, trainVars,
                   threadVars, alignVars>>

DumpFeatureNames ==
    /\ training.pc = "dump_features"
    /\ disk' = [disk EXCEPT !.features = FileOk(RunContract(training.run))]
    /\ training' = [training EXCEPT !.pc = "dump_metadata"]
    /\ UNCHANGED <<cacheVars, request, ret, classifyVars, labelVars, trainVars,
                   threadVars, alignVars>>

DumpMetadata ==
    /\ training.pc = "dump_metadata"
    /\ disk' = [disk EXCEPT !.metadata = FileOk(training.run)]
    /\ training' = [training EXCEPT !.pc = "idle"]
    /\ UNCHANGED <<cacheVars, request, ret, classifyVars, labelVars, trainVars,
                   threadVars, alignVars>>

Next ==
    \/ LoadModel
    \/ ServePredict
    \/ ServePredictBatch
    \/ Confidence
    \/ StartTraining
    \/ DumpModel
    \/ DumpFeatureNames
    \/ DumpMetadata

Spec == Init /\ [][Next]_vars

----------------------------------------------------------------------------
(* Specification SpecThreads: load_model called by the request threads of  *)
(* the service process.  load_model takes no lock, so the threads          *)
(* interleave between its statements: the test of line 43, the load of     *)
(* each of the three files with the assignment of its global, and the      *)
(* return of line 72.  The module has been imported (initialize_model has  *)
(* made the first call), and a training process saves new artifacts file   *)
(* by file meanwhile.                                                      *)

Threads == 1..MaxThreads

ThreadsInit ==
    /\ ClassifyIdle
    /\ LabelIdle
    /\ TrainIdle
    /\ AlignIdle
    /\ disk \in [ model : FileStates(RunModel(1), NoModel),
                  features : FileStates(RunContract(1), << >>),
                  metadata : FileStates(1, 0) ]
    /\ _model = initialize_model(EmptyCache, disk).model
    /\ _feature_names = initialize_model(EmptyCache, disk).feature_names
    /\ _model_metadata = initialize_model(EmptyCache, disk).metadata
    /\ request = << >>
    /\ ret = None
    /\ training = [run |-> 1, pc |-> "idle"]
    /\ pc = [t \in Threads |-> "idle"]
    /\ got = [t \in Threads |-> None]
    /\ loads = IF disk.model.st = "ok" THEN 1 ELSE 0

\* a statement of load_model run by thread t: the globals become those of
\* r, and the thread goes on at the next statement, or the call ends with
\* the exception r raised
Statement(t, r, next) ==
    /\ _model' = r.cache.model
    /\ _feature_names' = r.cache.feature_names
    /\ _model_metadata' = r.cache.metadata
    /\ IF r.raised = "none"
       THEN /\ pc' = [pc EXCEPT ![t] = next]
            /\ got' = [got EXCEPT ![t] = None]
       ELSE /\ pc' = [pc EXCEPT ![t] = "idle"]
            /\ got' = [got EXCEPT ![t] =
                         Some([raised |-> r.raised, value |-> None])]
    /\ UNCHANGED <<disk, request, ret, training, classifyVars, labelVars,
                   trainVars, alignVars>>

\* lines 43-44: a call that finds the model cached returns the three
\* globals as they are; any other goes on to load
Enter(t) ==
    /\ pc[t] = "idle"
    /\ IF _model # None
       THEN /\ got' = [got EXCEPT ![t] =
                         Some([raised |-> "none",
                               value |-> <<_model, _feature_names,
                                           _model_metadata>>])]
            /\ UNCHANGED pc
       ELSE /\ pc' = [pc EXCEPT ![t] = "model"]
            /\ got' = [got EXCEPT ![t] = None]
    /\ UNCHANGED <<gatewayVars, loads, classifyVars, labelVars, trainVars,
                   alignVars>>

\* lines 48-53
ReadModel(t) ==
    /\ pc[t] = "model"
    /\ Statement(t, LoadModelFile(Cache, disk), "features")
    /\ loads' = IF LoadModelFile(Cache, disk).raised = "none"
                THEN loads + 1 ELSE loads

\* lines 55-61
ReadFeatureNames(t) ==
    /\ pc[t] = "features"
    /\ Statement(t, LoadFeatureNames(Cache, disk), "metadata")
    /\ UNCHANGED loads

\* lines 63-70
ReadMetadata(t) ==
    /\ pc[t] = "metadata"
    /\ Statement(t, LoadMetadata(Cache, disk), "return")
    /\ UNCHANGED loads

\* line 72
ReturnLoaded(t) ==
    /\ pc[t] = "return"
    /\ pc' = [pc EXCEPT ![t] = "idle"]
    /\ got' = [got EXCEPT ![t] =
                 Some([raised |-> "none",
                       value |-> <<_model, _feature_names,
                                   _model_metadata>>])]
    /\ UNCHANGED <<gatewayVars, loads, classifyVars, labelVars, trainVars,
                   alignVars>>

ThreadsNext ==
    \/ \E t \in Threads :
         \/ Enter(t)
         \/ ReadModel(t)
         \/ ReadFeatureNames(t)
         \/ ReadMetadata(t)
         \/ ReturnLoaded(t)
    \/ StartTraining
    \/ DumpModel
    \/ DumpFeatureNames
    \/ DumpMetadata

SpecThreads == ThreadsInit /\ [][ThreadsNext]_vars

----------------------------------------------------------------------------
(* Specification SpecTrain: the training frame is built from the           *)
(* environmental records and the hourly sensor readings and X is prepared  *)
(* (ml/dataset.py load, ml/train.py prepare_features_and_target), the      *)
(* artifacts of the run are saved, and the service then reconciles a raw   *)
(* record of that frame with prepare_features.                             *)

\* Saturday 2024-01-06 21:00
TrainStart == 8460

\* the frames of load_env_features: records sorted by time, every number
\* set (a missing one is filled with 0.0 by the loader)
EnvFrames ==
    LET EnvRow(t, ra, te) ==
            << Some(t), Some(ra), Some(te), Some(0), Some(5000), Some(0),
               Some(101325) >>
        EnvRows ==
            { EnvRow(TrainStart + 30 * k, ra, te) :
                k \in 0..(MaxRecords - 1), ra \in {0, 2400},
                te \in {1200, 1800} }
    IN  { EmptyFrame } \cup
        { [ columns |-> << Str.timestamp, Str.rainfall_mm, Str.temperature_c,
                           Str.ambient_vibration, Str.humidity,
                           Str.wind_speed, Str.pressure >>,
            rows |-> rows ] :
            rows \in UNION { { r \in [1..n -> EnvRows] :
                                 \A i \in 1..(n - 1) :
                                    r[i][1][1] < r[i + 1][1][1] } :
                             n \in 1..MaxRecords } }

\* the frames of load_sensor_csvs with displacement.csv alone: one row an
\* hour from the first reading to the last, NaN for an hour with no reading
SensorFrames ==
    LET SensorRow(t, d) ==
            << Some(t), d, Some(0), Some(IF d = None THEN 0 ELSE Num(1)) >>
    IN  { EmptyFrame } \cup
        { [ columns |-> << Str.timestamp, Str.displacement,
                           Str.displacement \o Str._std,
                           Str.displacement \o Str._count >>,
            rows |-> [ j \in 1..Len(d) |->
                         SensorRow(TrainStart + 60 * (j - 1), d[j]) ] ] :
            d \in UNION { { r \in [1..n -> {None, Some(600), Some(1200)}] :
                              r[1] = Some(600) /\ r[n] # None } :
                          n \in 1..MaxRecords } }

TrainInit ==
    /\ ClassifyIdle
    /\ LabelIdle
    /\ GatewayIdle
    /\ ThreadsIdle
    /\ AlignIdle
    /\ env_df \in EnvFrames
    /\ sensor_df \in SensorFrames
    /\ dataset = None

LoadAndPrepare ==
    /\ dataset = None
    /\ dataset' = Some(Prepared(load(env_df, sensor_df)))
    /\ UNCHANGED <<env_df, sensor_df, gatewayVars, classifyVars, labelVars,
                   threadVars, alignVars>>

\* the run saves its artifacts (a model is fitted on one column at least)
SaveModelArtifacts ==
    /\ dataset # None
    /\ dataset[1].raised = "none"
    /\ dataset[1].columns # << >>
    /\ disk = NoDisk
    /\ disk' = Artifacts(dataset[1].columns)
    /\ UNCHANGED <<cacheVars, request, ret, training, classifyVars, labelVars,
                   trainVars, threadVars, alignVars>>

\* the service is handed a raw record of the training frame
ServeRecord ==
    /\ disk # NoDisk
    /\ ret = None
    /\ \E i \in 1..Len(dataset[1].index) :
         LET payload == RawRecord(env_df, sensor_df, dataset[1].index[i]) IN
         /\ request' = [kind |-> "single", payloads |-> <<payload>>]
         /\ Called("prepare_features", prepare_features(Cache, disk, payload))
    /\ UNCHANGED <<disk, training, classifyVars, labelVars, trainVars,
                   threadVars, alignVars>>

TrainNext == LoadAndPrepare \/ SaveModelArtifacts \/ ServeRecord

SpecTrain == TrainInit /\ [][TrainNext]_vars

----------------------------------------------------------------------------
(* Specification SpecAlign: RockfallDataset.load on an environmental file  *)
(* and a sensor directory (ml/dataset.py load with ml/features.py          *)
(* load_env_features, load_sensor_csvs, build_tabular_features,            *)
(* create_risk_labels and validate_features).  The sensor hours start at   *)
(* TrainStart; the environmental records fall half way between two sensor  *)
(* hours and 31 minutes before the first hour.                             *)

\* the readings a displacement.csv is made of: two in the first hour, one
\* with no value in the second, one in the third
DisplacementReadings ==
    { [timestamp |-> TrainStart, value |-> Some(600)],
      [timestamp |-> TrainStart + 20, value |-> Some(1200)],
      [timestamp |-> TrainStart + 60, value |-> None],
      [timestamp |-> TrainStart + 120, value |-> Some(600)] }

\* the readings a strain.csv is made of
StrainReadings ==
    { [timestamp |-> TrainStart + 120, value |-> Some(50)],
      [timestamp |-> TrainStart + 190, value |-> Some(150)] }

\* the sensor directories: each of the two files absent or any part of its
\* readings (the order of the lines of a file is of no matter to groupby)
SensorDirs ==
    LET Files(name, readings) ==
            { << >> } \cup { (name :> lines) : lines \in SUBSET readings }
    IN  { d @@ s : d \in Files(Str.displacement, DisplacementReadings),
                   s \in Files(Str.strain, StrainReadings) }

\* records with other keys: the second spelling of a quantity, both
\* spellings, a null or unparsable number, a key left out
SpelledRecords ==
    LET at == Some(TrainStart + 30) IN
    { [timestamp |-> at, rainfall |-> Some(1500)],
      [timestamp |-> at, rainfall_mm |-> None, rainfall |-> Some(1500)],
      [timestamp |-> at, rainfall_mm |-> Some(2500), rainfall |-> Some(1500)],
      [timestamp |-> at, temperature |-> Some(2500)],
      [timestamp |-> at, temperature_c |-> None],
      [timestamp |-> at, ambient_vibration |-> Some(70)],
      [timestamp |-> at, vibrations |-> Some(30), ambient_vibration |-> Some(70)],
      [timestamp |-> at, humidity |-> None, wind_speed |-> None,
       pressure |-> None],
      [timestamp |-> at, humidity |-> Some(8000), wind_speed |-> Some(300),
       pressure |-> Some(99000)],
      [timestamp |-> at],
      [rainfall_mm |-> Some(0)] }

\* the environmental files: absent, or up to MaxRecords records in any
\* order, two of them possibly of one time, a timestamp possibly null; or
\* one of the records with other keys, alone or before a plain record
EnvFiles ==
    LET EnvRecords ==
            [ timestamp : { None } \cup { Some(TrainStart + o) :
                                            o \in {0 - 31, 30, 90} },
              rainfall_mm : { Some(0) } ]
    IN  { None }
        \cup { Some(recs) : recs \in UNION { [1..n -> EnvRecords] :
                                               n \in 0..MaxRecords } }
        \cup { Some(<<rec>>) : rec \in SpelledRecords }
        \cup { Some(<<rec, [timestamp |-> Some(TrainStart + 90),
                            rainfall_mm |-> Some(0)]>>) :
                 rec \in { r \in SpelledRecords : Cardinality(DOMAIN r) = 2 } }

AlignInit ==
    /\ ClassifyIdle
    /\ LabelIdle
    /\ GatewayIdle
    /\ ThreadsIdle
    /\ env_json \in EnvFiles
    /\ sensor_csvs \in SensorDirs
    /\ env_df = EmptyFrame
    /\ sensor_df = EmptyFrame
    /\ tabular_df = None
    /\ dataset = None

\* RockfallDataset.load: dataset is what the call gave, [raised, df]
Load ==
    /\ dataset = None
    /\ env_df' = load_env_features(env_json)
    /\ sensor_df' = load_sensor_csvs(sensor_csvs)
    /\ tabular_df' = Some(build_tabular_features(env_df', sensor_df'))
    /\ dataset' = Some(Loaded(Labelled(tabular_df'[1])))
    /\ UNCHANGED <<env_json, sensor_csvs, gatewayVars, classifyVars,
                   labelVars, threadVars>>

AlignNext == Load

SpecAlign == AlignInit /\ [][AlignNext]_vars

----------------------------------------------------------------------------
(* Properties                                                              *)

\* the table create_risk_labels returned, and the number of its rows
Out == labelled[1]
OutRows == IF labelled = None THEN {} ELSE 1..Len(Out.rows)

\* value of column c in row r, or 0 when the table has no such column
C5_Val(r, c) == IF c \in DOMAIN r THEN r[c] ELSE 0

\* the sum of the scoring table for one row, in hundredths
C5_Sum(r) ==
      (IF C5_Val(r, Str.rainfall_mm) > 2000 THEN 30 ELSE 0)
    + (IF C5_Val(r, Str.rainfall_mm) > 5000 THEN 20 ELSE 0)
    + (IF C5_Val(r, Str.rainfall_cumsum_24h) > 10000 THEN 20 ELSE 0)
    + (IF C5_Val(r, Str.vibrations) > 60 THEN 25 ELSE 0)
    + (IF C5_Val(r, Str.vibrations) > 100 THEN 15 ELSE 0)
    + (IF C5_Val(r, Str.displacement) > 500 THEN 30 ELSE 0)
    + (IF C5_Val(r, Str.displacement) > 1000 THEN 20 ELSE 0)
    + (IF C5_Val(r, Str.strain) > 100 THEN 15 ELSE 0)
    + (IF C5_Val(r, Str.pore_pressure) > 200 THEN 10 ELSE 0)
    + (IF C5_Val(r, Str.rainfall_mm) > 2000 /\ C5_Val(r, Str.vibrations) > 60 THEN 20 ELSE 0)
    + (IF C5_Val(r, Str.displacement) > 500 /\ C5_Val(r, Str.strain) > 100 THEN 15 ELSE 0)
    + (IF C5_Val(r, Str.temperature_c) < 0 \/ C5_Val(r, Str.temperature_c) > 4000 THEN 5 ELSE 0)

\* every signal of the row other than rainfall and vibration is at or below
\* its threshold
C5_OthersQuiet(r) ==
    /\ C5_Val(r, Str.rainfall_cumsum_24h) <= 10000
    /\ C5_Val(r, Str.displacement) <= 500
    /\ C5_Val(r, Str.strain) <= 100
    /\ C5_Val(r, Str.pore_pressure) <= 200
    /\ C5_Val(r, Str.temperature_c) >= 0 /\ C5_Val(r, Str.temperature_c) <= 4000

\* C5: every labelled row has risk_probability = min(1, S), S the sum of the
\* scoring-table contributions with strict thresholds; rainfall 25 alone
\* scores 0.30 and is not high risk, rainfall 55 with vibration 0.7 scores
\* 0.95 and is high risk.
C5_ScoreIsTableSum ==
    \A i \in OutRows :
        LET r == df.rows[i]
            o == Out.rows[i]
        IN  /\ o[Str.risk_probability] = (IF C5_Sum(r) < 100 THEN C5_Sum(r) ELSE 100)
            /\ (C5_Val(r, Str.rainfall_mm) = 2500 /\ C5_Val(r, Str.vibrations) = 0
                  /\ C5_Val(r, Str.displacement) = 0 /\ C5_OthersQuiet(r))
               => (o[Str.risk_probability] = 30 /\ o[Str.risk] = 0)
            /\ (C5_Val(r, Str.rainfall_mm) = 5500 /\ C5_Val(r, Str.vibrations) = 70
                  /\ C5_Val(r, Str.displacement) = 0 /\ C5_OthersQuiet(r))
               => (o[Str.risk_probability] = 95 /\ o[Str.risk] = 1)

\* a labelled row with rainfall 55 and vibration 0.7 and nothing else past
\* its threshold, scored 0.95
C5_Witness ==
    \E i \in OutRows :
        /\ {Str.rainfall_mm, Str.vibrations, Str.displacement} \subseteq df.columns
        /\ df.rows[i][Str.rainfall_mm] = 5500 /\ df.rows[i][Str.vibrations] = 70
        /\ df.rows[i][Str.displacement] = 0
        /\ C5_OthersQuiet(df.rows[i])
        /\ Out.rows[i][Str.risk_probability] = 95

\* C6: every labelled row has 0 <= risk_probability <= 1 and risk = 1 exactly
\* when risk_probability > 0.5; the label of a row is the label the row gets
\* when it is labelled alone.
C6_LabelInvariant ==
    \A i \in OutRows :
        LET o == Out.rows[i]
            alone == create_risk_labels([columns |-> df.columns,
                                         rows |-> <<df.rows[i]>>]).rows[1]
        IN  /\ 0 <= o[Str.risk_probability] /\ o[Str.risk_probability] <= 100
            /\ (o[Str.risk] = 1) <=> (o[Str.risk_probability] > 50)
            /\ o[Str.risk] \in {0, 1}
            /\ o = alone

\* a row scored exactly 0.5 and labelled not high risk, in a table of
\* several rows
C6_Witness ==
    \E i \in OutRows :
        /\ Len(Out.rows) > 1
        /\ Out.rows[i][Str.risk_probability] = 50
        /\ Out.rows[i][Str.risk] = 0

\* C7: for p in [0,1] the class is LOW iff p < 0.33, MEDIUM iff
\* 0.33 <= p < 0.66, HIGH iff 0.66 <= p; exactly one class is returned.
C7_Bands ==
    (risk_class # "unset" /\ 0 <= probability /\ probability <= 100) =>
        /\ risk_class \in {"LOW", "MEDIUM", "HIGH"}
        /\ (risk_class = "LOW") <=> (probability < 33)
        /\ (risk_class = "MEDIUM") <=> (33 <= probability /\ probability < 66)
        /\ (risk_class = "HIGH") <=> (66 <= probability)

\* probability 1.0 classified, as HIGH
C7_Witness == probability = 100 /\ risk_class = "HIGH"

\* C8 as stated: 0.33 -> MEDIUM, 0.66 -> MEDIUM, 1.0 -> HIGH, 0.0 -> LOW
C8_Original ==
    risk_class # "unset" =>
        /\ probability = 33 => risk_class = "MEDIUM"
        /\ probability = 66 => risk_class = "MEDIUM"
        /\ probability = 100 => risk_class = "HIGH"
        /\ probability = 0 => risk_class = "LOW"

\* C8 amended: 0.33 -> MEDIUM, 0.66 -> HIGH, 1.0 -> HIGH, 0.0 -> LOW
C8_Boundaries ==
    risk_class # "unset" =>
        /\ probability = 33 => risk_class = "MEDIUM"
        /\ probability = 66 => risk_class = "HIGH"
        /\ probability = 100 => risk_class = "HIGH"
        /\ probability = 0 => risk_class = "LOW"

\* probability exactly 0.66 classified
C8_Witness == probability = 66 /\ risk_class = "HIGH"

\* the last call, when it was op
Last(op) == ret # None /\ ret[1].op = op

\* C2: prepare_features returns a vector whose names are the contract's in
\* the contract's order, as long as the contract, with no null cell, for
\* every payload (fields missing, null or extra) and every loaded contract.
C2_ContractShape ==
    Last("prepare_features") =>
        /\ ret[1].raised = "none"
        /\ ret[1].value.names = _feature_names[1]
        /\ Len(ret[1].value.values) = Len(_feature_names[1])
        /\ \A i \in 1..Len(ret[1].value.values) : ret[1].value.values[i] # None
        /\ \A k \in DOMAIN request.payloads[1] :
             (\A i \in 1..Len(_feature_names[1]) : _feature_names[1][i] # k)
             => \A i \in 1..Len(ret[1].value.names) : ret[1].value.names[i] # k

\* a payload with an extra field, a null contract field and a missing
\* contract field, reconciled
C2_Witness ==
    /\ Last("prepare_features")
    /\ _feature_names[1] = <<Str.temperature_c, Str.rainfall_mm>>
    /\ DOMAIN request.payloads[1] = {Str.wind_speed, Str.rainfall_mm}
    /\ request.payloads[1][Str.rainfall_mm] = None
    /\ ret[1].value.values = <<Some(2000), Some(0)>>

\* the defaults the pattern rule allows for a name: that of every pattern
\* the name matches, 0 when it matches none
C3_Allowed(name) ==
    LET t == IF Contains(lower(name), Str.temp) THEN {2000} ELSE {}
        p == IF Contains(lower(name), Str.pressure) THEN {101325} ELSE {}
        h == IF Contains(lower(name), Str.humidity) THEN {5000} ELSE {}
        z == IF Contains(name, Str.roll) \/ Contains(name, Str.diff)
                  \/ Contains(name, Str.pct_change) THEN {0} ELSE {}
    IN  IF t \cup p \cup h \cup z = {} THEN {0} ELSE t \cup p \cup h \cup z

\* the contract positions whose name is not a key of the payload
C3_Absent ==
    { i \in 1..Len(_feature_names[1]) :
        _feature_names[1][i] \notin DOMAIN request.payloads[1] }

\* C3 as stated: every contract name absent from the payload gets its
\* pattern default
C3_Original ==
    Last("prepare_features") =>
        \A i \in C3_Absent :
            ret[1].value.values[i][1] \in C3_Allowed(_feature_names[1][i])

\* C3 amended: every contract name absent from the payload gets its pattern
\* default, except a calendar name when the payload carries a timestamp,
\* which gets the value computed from the timestamp.
C3_PatternDefaults ==
    Last("prepare_features") =>
        \A i \in C3_Absent :
            LET name == _feature_names[1][i]
                payload == request.payloads[1]
            IN  IF name \in CalendarNames /\ HasTimestamp(payload)
                THEN (name = Str.hour =>
                        ret[1].value.values[i][1] = 100 * payload[Str.timestamp][1].hour)
                ELSE ret[1].value.values[i][1] \in C3_Allowed(name)

\* an empty payload reconciled against a contract of a humidity-like and a
\* temperature-like name
C3_Witness ==
    /\ Last("prepare_features")
    /\ request.payloads[1] = EmptyPayload
    /\ _feature_names[1] = <<Str.humidity, Str.Air_Temp>>
    /\ ret[1].value.values = <<Some(5000), Some(2000)>>

\* the contract positions whose name is a key of the payload with a null
\* value (and is not a calendar column written from the timestamp)
C28_Null ==
    { i \in 1..Len(_feature_names[1]) :
        /\ _feature_names[1][i] \in DOMAIN request.payloads[1]
        /\ request.payloads[1][_feature_names[1][i]] = None
        /\ ~(HasTimestamp(request.payloads[1])
               /\ _feature_names[1][i] \in CalendarNames) }

\* C28 as stated: a contract feature whose key is in the payload with a
\* null value gets the pattern default an absent key gets
C28_Original ==
    (Last("prepare_features") /\ ret[1].raised = "none") =>
        \A i \in C28_Null :
            ret[1].value.values[i] = Some(DefaultValue(_feature_names[1][i]))

\* the patterns a name matches
C29_Derived(name) ==
    Contains(name, Str.roll) \/ Contains(name, Str.diff)
        \/ Contains(name, Str.pct_change)
C29_Temperature(name) == Contains(lower(name), Str.temp)
C29_Pressure(name) == Contains(lower(name), Str.pressure)
C29_Humidity(name) == Contains(lower(name), Str.humidity)

\* C29: a contract name that the frame lacks gets exactly one default, by
\* the precedence derived, temperature, pressure, humidity, zero: 0.0 for a
\* derived name whatever else it contains, else 20.0 for a temperature
\* name, else 1013.25 for a name containing 'pressure', else 50.0 for a
\* humidity name, else 0.0.
C29_Precedence ==
    (Last("prepare_features") /\ ret[1].raised = "none") =>
        \A i \in C3_Absent :
            LET name == _feature_names[1][i]
                v == ret[1].value.values[i]
            IN  ~(name \in CalendarNames /\ HasTimestamp(request.payloads[1])) =>
                  /\ C29_Derived(name) => v = Some(0)
                  /\ (~C29_Derived(name) /\ C29_Temperature(name)) => v = Some(2000)
                  /\ (~C29_Derived(name) /\ ~C29_Temperature(name)
                        /\ C29_Pressure(name)) => v = Some(101325)
                  /\ (~C29_Derived(name) /\ ~C29_Temperature(name)
                        /\ ~C29_Pressure(name) /\ C29_Humidity(name)) => v = Some(5000)
                  /\ (~C29_Derived(name) /\ ~C29_Temperature(name)
                        /\ ~C29_Pressure(name) /\ ~C29_Humidity(name)) => v = Some(0)

\* a rolling mean of the temperature and the pore pressure, both missing
C29_Witness ==
    /\ Last("prepare_features")
    /\ request.payloads[1] = EmptyPayload
    /\ _feature_names[1] = <<Str.temperature_c \o Str._roll3h, Str.pore_pressure>>
    /\ ret[1].value.values = <<Some(0), Some(101325)>>

\* the timestamps of the payloads in minutes since Monday 2024-01-01 00:00
C23_Instants == {270660, 487140, 7590}

\* the flags of the training path: engineer_features on a frame of one row
C23_Trained(t, c) ==
    Cell(engineer_features([columns |-> <<Str.timestamp>>,
                            rows |-> << <<Some(t)>> >>]), 1, c)

\* C23 as stated: for a payload with a timestamp the night flag is 1
\* exactly from 22:00 through 06:00 inclusive, and the training path gives
\* the same night and weekend flags for the same timestamp
C23_Original ==
    (/\ Last("prepare_features")
     /\ ret[1].raised = "none"
     /\ HasTimestamp(request.payloads[1])) =>
        LET ts == request.payloads[1][Str.timestamp][1]
            tod == 60 * ts.hour + ts.minute
            night == IF tod >= 22 * 60 \/ tod <= 6 * 60 THEN 100 ELSE 0
        IN  /\ \A i \in 1..Len(_feature_names[1]) :
                  _feature_names[1][i] = Str.is_night =>
                      ret[1].value.values[i] = Some(night)
            /\ \A t \in C23_Instants :
                  Datetime(t) = ts =>
                      /\ C23_Trained(t, Str.is_night)
                            = Some(CalendarValue(ts, Str.is_night))
                      /\ C23_Trained(t, Str.is_weekend)
                            = Some(CalendarValue(ts, Str.is_weekend))

\* the second half of C23 alone: both paths give the same flags
C23_PathsAgree ==
    (/\ Last("prepare_features")
     /\ HasTimestamp(request.payloads[1])) =>
        LET ts == request.payloads[1][Str.timestamp][1] IN
        /\ \E t \in C23_Instants : Datetime(t) = ts
        /\ \A t \in C23_Instants :
              Datetime(t) = ts =>
                  /\ C23_Trained(t, Str.is_night)
                        = Some(CalendarValue(ts, Str.is_night))
                  /\ C23_Trained(t, Str.is_weekend)
                        = Some(CalendarValue(ts, Str.is_weekend))

\* what predict_proba returns for each payload of the request
C4_Singles ==
    [ i \in 1..Len(request.payloads) |->
        predict_proba(Cache, disk, request.payloads[i]) ]

\* the batch result against them, each computed once
C4_Elementwise ==
    LET singles == AsTuple(C4_Singles) IN
    IF \A i \in 1..Len(singles) : singles[i].raised = "none"
    THEN /\ ret[1].raised = "none"
         /\ Len(ret[1].value[1]) = Len(singles)
         /\ \A i \in 1..Len(singles) :
              ret[1].value[1][i] = singles[i].value[1]
    ELSE ret[1].raised # "none"

\* C4 as stated: for a list of any length predict_batch returns the list of
\* the predict_proba results, in order
C4_Original == Last("predict_batch") => C4_Elementwise

\* C4 amended: for a list of at least one payload predict_batch returns the
\* list of the predict_proba results, in order (and raises when one of them
\* raises).
C4_BatchEqualsSingle ==
    (Last("predict_batch") /\ Len(request.payloads) > 0) => C4_Elementwise

\* a batch of two different payloads predicted, with two different results
C4_Witness ==
    /\ Last("predict_batch")
    /\ ret[1].raised = "none"
    /\ Len(request.payloads) = 2
    /\ request.payloads[1] # request.payloads[2]
    /\ ret[1].value[1][1] # ret[1].value[1][2]

\* a prediction call has just returned
LastPredict == Last("predict_proba") \/ Last("predict_batch")

\* C9 as stated: while the model has never been loaded (the first load and
\* every later one failed), a prediction call raises ModelNotFoundError and
\* returns no number.
C9_Original ==
    (LastPredict /\ _model = None) =>
        /\ ret[1].raised = "ModelNotFoundError"
        /\ ret[1].value = None

\* C10 as stated: once the load has failed, no call makes the model
\* available (the code has no reload operation).
C10_Original == [][_model = None => _model' = None]_vars

\* C1 as stated: for a raw record of the training frame and the contract
\* the run saved, prepare_features gives every contract feature the value
\* the training path (build_tabular_features, prepare_features_and_target)
\* gave it.
C1_Original ==
    (dataset # None /\ ret # None /\ ret[1].raised = "none") =>
        \A i \in 1..Len(dataset[1].rows) :
            RawRecord(env_df, sensor_df, dataset[1].index[i])
                = request.payloads[1]
            => ret[1].value.values = dataset[1].rows[i]

\* C11 as stated: every triple load_model returns has the model, the
\* feature names and the metadata all set, whatever another thread that is
\* loading has done so far.
C11_Original ==
    \A t \in DOMAIN got :
        (got[t] # None /\ got[t][1].raised = "none") =>
            /\ got[t][1].value[1] # None
            /\ got[t][1].value[2] # None
            /\ got[t][1].value[3] # None

\* C12 as stated: the model is deserialized and assigned to the cache at
\* most once in the life of the process.
C12_Original == loads <= 1

\* C13 as stated: a call of load_model that returns without raising has
\* cached a feature list that is not empty and is the one the cached model
\* was fitted on.
C13_Original ==
    (Last("load_model") /\ ret[1].raised = "none") =>
        /\ _feature_names # None
        /\ _feature_names[1] # << >>
        /\ _feature_names[1] = _model[1].fitted

\* C14 as stated: the feature names and the metadata cached with a model
\* are those of the training run that made the model (a file that is
\* missing leaves [] or {}, which is of no run).
C14_Original ==
    (DOMAIN got # {} /\ _model # None /\ _feature_names # None
       /\ _model_metadata # None) =>
        /\ _feature_names[1] # << >> =>
              _feature_names[1] = RunContract(_model[1].run)
        /\ _model_metadata[1] # EmptyMetadata =>
              _model_metadata[1] = _model[1].run

\* the cells of a row that are not NaN
NonNull(row) == Cardinality({ k \in 1..Len(row) : row[k] # None })

\* C15 as stated: a merged row with fewer than 60% of its columns non-null
\* does not appear in the frame build_tabular_features returns.
C15_Original ==
    tabular_df # None =>
        LET merged == Merged(env_df, sensor_df) IN
        \A i \in 1..Len(merged.rows) :
            10 * NonNull(merged.rows[i]) < 6 * Len(merged.columns)
                => \A k \in 1..Len(tabular_df[1].index) :
                       tabular_df[1].index[k] # i

\* the rows among from..to of the frame out that had a value in column k
\* of the engineered frame e, of which out has kept the rows out.index
Valued(e, out, from, to, k) ==
    { j \in from..to : e.rows[out.index[j]][k] # None }

\* out is e after the fills: no cell is null; a cell that had a value keeps
\* it, a null cell has the value of the nearest earlier row that had one,
\* else of the nearest later row that had one, else 0
StrictFillOrder(e, out) ==
    \A i \in 1..Len(out.rows) :
        \A k \in 1..Len(out.columns) :
            /\ out.rows[i][k] # None
            /\ \A j \in Valued(e, out, 1, i, k) :
                 Valued(e, out, j + 1, i, k) = {}
                     => out.rows[i][k] = e.rows[out.index[j]][k]
            /\ \A j \in Valued(e, out, i + 1, Len(out.rows), k) :
                 Valued(e, out, 1, j - 1, k) = {}
                     => out.rows[i][k] = e.rows[out.index[j]][k]
            /\ Valued(e, out, 1, Len(out.rows), k) = {}
                     => out.rows[i][k] = Some(0)

\* C16: the frame build_tabular_features returns has no null cell, and each
\* cell that was null after the coverage drop has the value of the nearest
\* earlier retained row that had one, else of the nearest later retained
\* row that had one, else 0.
C16_StrictFillOrder ==
    tabular_df # None =>
        StrictFillOrder(engineer_features(Merged(env_df, sensor_df)),
                        tabular_df[1])

\* in out one null cell was filled from an earlier row, one from a later
\* row and one with 0
AllThreeFills(e, out) ==
    /\ \E i \in 2..Len(out.rows) :
         \E k \in 1..Len(out.columns) :
            /\ e.rows[out.index[i]][k] = None
            /\ Valued(e, out, 1, i - 1, k) # {}
    /\ \E i \in 1..Len(out.rows) :
         \E k \in 1..Len(out.columns) :
            /\ Valued(e, out, 1, i, k) = {}
            /\ Valued(e, out, i + 1, Len(out.rows), k) # {}
    /\ \E k \in 1..Len(out.columns) :
         /\ out.rows # << >>
         /\ Valued(e, out, 1, Len(out.rows), k) = {}

C16_Witness ==
    /\ tabular_df # None
    /\ AllThreeFills(engineer_features(Merged(env_df, sensor_df)),
                     tabular_df[1])

\* the distance in time from row j of a frame to t
Distance(f, j, t) ==
    IF Cell(f, j, Str.timestamp)[1] < t
    THEN t - Cell(f, j, Str.timestamp)[1]
    ELSE Cell(f, j, Str.timestamp)[1] - t

\* the cells that row i of merged has from the frame merged into left
Joined(left, merged, i) ==
    SubSeq(merged.rows[i], Len(left.columns) + 1, Len(merged.columns))

\* merged is left with right merged in: a left row with a right row within
\* the tolerance (the tolerance itself included) has the cells of a nearest
\* one, a left row with none within it has missing values
C17_Merge(left, right, merged, tolerance) ==
    \A i \in 1..Len(left.rows) :
        LET t == Cell(left, i, Str.timestamp)[1]
            near == { j \in 1..Len(right.rows) :
                        Distance(right, j, t) <= tolerance }
        IN  IF near = {}
            THEN \A k \in 1..Len(Joined(left, merged, i)) :
                     Joined(left, merged, i)[k] = None
            ELSE \E j \in near :
                    /\ \A l \in near :
                         Distance(right, j, t) <= Distance(right, l, t)
                    /\ Joined(left, merged, i) = Tail(right.rows[j])

\* both files of the sensor directory gave a frame
BothSensors ==
    /\ DOMAIN sensor_csvs = {Str.displacement, Str.strain}
    /\ Readings(sensor_csvs, Str.displacement) # {}
    /\ Readings(sensor_csvs, Str.strain) # {}

\* C17: in the merge of the strain frame into the displacement frame
\* (tolerance 2 hours) and in the merge of the sensor frame into the
\* environmental frame (tolerance 30 minutes), a candidate at exactly the
\* tolerance is matched and a row with no candidate within the tolerance
\* gets missing values.
C17_ToleranceInclusive ==
    tabular_df # None =>
        /\ BothSensors =>
             C17_Merge(Hourly(Str.displacement,
                              Readings(sensor_csvs, Str.displacement)),
                       Hourly(Str.strain, Readings(sensor_csvs, Str.strain)),
                       sensor_df, 120)
        /\ (~IsEmpty(env_df) /\ ~IsEmpty(sensor_df)) =>
             C17_Merge(env_df, sensor_df, Merged(env_df, sensor_df), 30)

\* some row of left has its nearest row of right at the distance d and
\* is matched or not, as said
C17_Case(left, right, merged, d, matched) ==
    \E i \in 1..Len(left.rows) :
        /\ \E j \in 1..Len(right.rows) :
             Distance(right, j, Cell(left, i, Str.timestamp)[1]) = d
        /\ \A j \in 1..Len(right.rows) :
             Distance(right, j, Cell(left, i, Str.timestamp)[1]) >= d
        /\ matched = (\E k \in 1..Len(Joined(left, merged, i)) :
                         Joined(left, merged, i)[k] # None)

\* an environmental record 30 minutes from the nearest sensor hour is
\* matched and one 31 minutes from it is not; a displacement hour 2 hours
\* from the nearest strain hour is matched and one 3 hours from it is not
C17_Witness ==
    /\ tabular_df # None
    /\ BothSensors
    /\ ~IsEmpty(env_df)
    /\ C17_Case(env_df, sensor_df, Merged(env_df, sensor_df), 30, TRUE)
    /\ C17_Case(env_df, sensor_df, Merged(env_df, sensor_df), 31, FALSE)
    /\ C17_Case(Hourly(Str.displacement,
                       Readings(sensor_csvs, Str.displacement)),
                Hourly(Str.strain, Readings(sensor_csvs, Str.strain)),
                sensor_df, 120, TRUE)
    /\ C17_Case(Hourly(Str.displacement,
                       Readings(sensor_csvs, Str.displacement)),
                Hourly(Str.strain, Readings(sensor_csvs, Str.strain)),
                sensor_df, 180, FALSE)

\* C18 as stated: of two candidates at the same distance within the
\* tolerance the merge takes the earlier one, unless the earlier one has a
\* null value and the later one has none: then the later one.
C18_Original ==
    (tabular_df # None /\ ~IsEmpty(env_df) /\ ~IsEmpty(sensor_df)) =>
        \A i \in 1..Len(env_df.rows) :
            \A j, k \in 1..Len(sensor_df.rows) :
                LET t == Cell(env_df, i, Str.timestamp)[1] IN
                (/\ Cell(sensor_df, j, Str.timestamp)[1] < t
                 /\ Cell(sensor_df, k, Str.timestamp)[1] > t
                 /\ Distance(sensor_df, j, t) = Distance(sensor_df, k, t)
                 /\ Distance(sensor_df, j, t) <= 30)
                => Joined(env_df, Merged(env_df, sensor_df), i) =
                     IF /\ NonNull(sensor_df.rows[j])
                             < Len(sensor_df.columns)
                        /\ NonNull(sensor_df.rows[k])
                             = Len(sensor_df.columns)
                     THEN Tail(sensor_df.rows[k])
                     ELSE Tail(sensor_df.rows[j])

\* the rows of a frame are strictly increasing in timestamp
StrictlyOrdered(f) ==
    \A i \in 1..(Len(f.rows) - 1) :
        Cell(f, i, Str.timestamp)[1] < Cell(f, i + 1, Str.timestamp)[1]

\* C19 as stated: the frames of the two loaders and the merged frame are
\* strictly increasing in timestamp.
C19_Original ==
    tabular_df # None =>
        /\ StrictlyOrdered(env_df)
        /\ StrictlyOrdered(sensor_df)
        /\ StrictlyOrdered(Merged(env_df, sensor_df))

\* C20 as stated: with the environmental file and every sensor file
\* absent the loaders give empty frames and RockfallDataset.load returns
\* without raising.
C20_Original ==
    (tabular_df # None /\ env_json = None /\ sensor_csvs = << >>) =>
        /\ IsEmpty(env_df)
        /\ IsEmpty(sensor_df)
        /\ IsEmpty(tabular_df[1])
        /\ dataset[1].raised = "none"

\* the order of the code, and the order with blocks j and k exchanged
C24_CodeOrder == <<1, 2, 3, 4, 5, 6, 7, 8, 9>>
C24_Exchanged(j, k) ==
    [ i \in 1..9 |-> IF i = j THEN k ELSE IF i = k THEN j ELSE i ]

\* the same score for every exchange of two blocks
C24_SameScore(terms) ==
    \A j, k \in 1..9 :
        risk_score_float64(terms, C24_Exchanged(j, k))
          = risk_score_float64(terms, C24_CodeOrder)

\* C24 as stated: the clamped risk score of a row is the same in whatever
\* order the blocks of the scoring table are added (here: for the order
\* of the code and every order that exchanges two blocks)
C24_Original ==
    labelled # None =>
        \A i \in 1..Len(df.rows) : C24_SameScore(Terms(df, df.rows[i]))

\* in the order of the code the float64 score is above 0.5 exactly when
\* the row is labelled 1
C24_LabelInCodeOrder ==
    labelled # None =>
        \A i \in OutRows :
            Out.rows[i][Str.risk]
              = (IF Greater64(risk_score_float64(Terms(df, df.rows[i]),
                                                 C24_CodeOrder),
                              <<134217728, 0>>)
                 THEN 1 ELSE 0)

\* the canonical numeric columns of the environmental frame: the column,
\* the spellings of its key, its documented default
C21_Fields ==
    { <<2, {"rainfall_mm", "rainfall"}, 0>>,
      <<3, {"temperature_c", "temperature"}, 2000>>,
      <<4, {"vibrations", "ambient_vibration"}, 0>>,
      <<5, {"humidity"}, 5000>>,
      <<6, {"wind_speed"}, 0>>,
      <<7, {"pressure"}, 101325>> }

\* the numbers a record gives under the spellings of one quantity
C21_Numbers(rec, keys) ==
    { rec[k] : k \in { k \in keys \cap DOMAIN rec : rec[k] # None } }

\* a record has a timestamp that parses
C21_Timed(rec) == "timestamp" \in DOMAIN rec /\ rec["timestamp"] # None

\* C21 as stated: a record with a timestamp is kept whatever its numeric
\* fields are; a field that is missing or no number under every spelling
\* takes its documented default, else the number one of its spellings gives
C21_Original ==
    (tabular_df # None /\ env_json # None) =>
        \A i \in 1..Len(env_json[1]) :
            LET rec == env_json[1][i] IN
            C21_Timed(rec) =>
                \E j \in 1..Len(env_df.rows) :
                    /\ env_df.rows[j][1] = rec["timestamp"]
                    /\ \A fld \in C21_Fields :
                          IF C21_Numbers(rec, fld[2]) = {}
                          THEN env_df.rows[j][fld[1]] = Some(fld[3])
                          ELSE env_df.rows[j][fld[1]] \in C21_Numbers(rec, fld[2])

\* a record of the environmental file is well formed: its timestamp parses
\* and every number it has is a number
C22_WellFormed(rec) ==
    /\ C21_Timed(rec)
    /\ \A k \in DOMAIN rec : rec[k] # None

\* a sensor directory without the readings that have no value
C22_Valued(dir) ==
    [ name \in DOMAIN dir |-> { r \in dir[name] : r.value # None } ]

\* C22 as stated: both loaders drop a record with no timestamp or with a
\* value that is no number and return all the others: the environmental
\* frame has one row for each well formed record, and the sensor frame is
\* that of the readings with a value
C22_Original ==
    tabular_df # None =>
        /\ env_json # None =>
              Len(env_df.rows)
                = Cardinality({ i \in 1..Len(env_json[1]) :
                                  C22_WellFormed(env_json[1][i]) })
        /\ sensor_df = load_sensor_csvs(C22_Valued(sensor_csvs))

\* the threshold indicators: name, source column, threshold in hundredths
C27_Indicators ==
    { <<Str.heavy_rain, Str.rainfall_mm, 2000>>,
      <<Str.extreme_rain, Str.rainfall_mm, 5000>>,
      <<Str.high_displacement, Str.displacement, 500>>,
      <<Str.critical_displacement, Str.displacement, 1000>> }

\* C27 as stated: in every row of the table build_tabular_features
\* returned each threshold indicator is 1 exactly when the final value of
\* its source column in that row is above the threshold.
C27_Original ==
    tabular_df # None =>
        \A i \in 1..Len(tabular_df[1].rows) :
            \A ind \in C27_Indicators :
                HasColumn(tabular_df[1], ind[1]) =>
                    (Cell(tabular_df[1], i, ind[1]) = Some(100)
                       <=> Cell(tabular_df[1], i, ind[2])[1] > ind[3])

\* C25 as stated: a call of load_model that raised has left the model, the
\* feature names and the metadata all unset.
C25_Original ==
    (Last("load_model") /\ ret[1].raised # "none") =>
        /\ _model = None
        /\ _feature_names = None
        /\ _model_metadata = None

\* C26 as stated: a probability in [0,1] that classify_risk gives HIGH is
\* one should_send_alert says to alert.
C26_Original ==
    (risk_class = "HIGH" /\ 0 <= probability /\ probability <= 100) =>
        should_send_alert(probability, risk_class)

\* the place of a class in LOW < MEDIUM < HIGH
Rank(level) == CHOOSE i \in 1..Len(Levels) : Levels[i] = level

\* C30: classify_risk gives one of LOW, MEDIUM, HIGH for every number, LOW
\* below 0 and HIGH above 1, and never a lower class for a greater number.
C30_TotalMonotone ==
    risk_class # "unset" =>
        /\ risk_class \in {"LOW", "MEDIUM", "HIGH"}
        /\ probability < 0 => risk_class = "LOW"
        /\ probability > 100 => risk_class = "HIGH"
        /\ \A q \in PMin..PMax :
             /\ classify_risk(q) \in {"LOW", "MEDIUM", "HIGH"}
             /\ q <= probability => Rank(classify_risk(q)) <= Rank(risk_class)
             /\ q >= probability => Rank(classify_risk(q)) >= Rank(risk_class)

\* a number above 1.0 classified, as HIGH
C30_Witness == probability > 100 /\ risk_class = "HIGH"

====
